---- MODULE Spec2Model ----
(***************************************************************************)
(* State synchronization subsystem of CrowderSoup/todo-app:                *)
(*   - mergeKanbanData (handlers/data.go), the reconciliation of a client  *)
(*     snapshot with the stored server snapshot;                           *)
(*   - Hub / Client pumps (services), the connection hub and its sessions; *)
(*   - DataHandler.SyncData (handlers/data.go), the push endpoint with the *)
(*     DataService load and save.                                          *)
(***************************************************************************)
EXTENDS Integers, Sequences, FiniteSets, TLC

\* ------------------------------------------------------------------------
\* Bounds of the model (not program constants)
\* ------------------------------------------------------------------------

\* total number of column and task records in the two snapshots handed to
\* mergeKanbanData by the merge specification
MaxItems == 3

\* capacity of a session's outbound queue in the model; the program makes
\* the channel with capacity 256 (HandleWebSocket)
SendCap == 2

\* number of stimuli the hub specification takes from outside: pushes that
\* broadcast, inbound frames, transport failures
MaxEvents == 4

\* number of columns, and of tasks, in a snapshot pushed to SyncData in the
\* push specification
MaxPush == 1

\* number of inputs the coordinators take in the coordinator and system
\* specifications: edits, timer ticks of the intervals, clicks, failures of
\* the network
MaxInputs == 2

\* ------------------------------------------------------------------------
\* Snapshot model (database/models.go)
\* ------------------------------------------------------------------------

\* a nil pointer (*string) of Go; JSON null
Nil == "<nil>"

TaskIds == {"t1", "t2"}
ColumnIds == {"c1", "c2"}

\* database.Task
Task(id, title, description, dueDate, priority, columnId, deleted, hidden) ==
    [id |-> id, title |-> title, description |-> description,
     dueDate |-> dueDate, priority |-> priority, columnId |-> columnId,
     deleted |-> deleted, hidden |-> hidden]

\* database.Column
Column(id, title, order, deleted, hidden) ==
    [id |-> id, title |-> title, order |-> order, deleted |-> deleted,
     hidden |-> hidden]

\* database.KanbanData
KanbanData(columns, tasks, unassignedTasks, unassignedCollapsed) ==
    [columns |-> columns, tasks |-> tasks, unassignedTasks |-> unassignedTasks,
     unassignedCollapsed |-> unassignedCollapsed]

\* The task records the inputs are drawn from: for each id a plain task in
\* column c1, an edited version of it (every content field differs), the
\* three spellings of "unassigned" (null, "", "unassigned") and a tombstone
\* (markTaskAsDeleted sets deleted and hidden together).
TaskVals ==
    UNION { { Task(i, "a", "", "", Nil, "c1", FALSE, FALSE),
              Task(i, "b", "d", "2025-01-01", "high", "c2", FALSE, FALSE),
              Task(i, "a", "", "", Nil, Nil, FALSE, FALSE),
              Task(i, "a", "", "", Nil, "", FALSE, FALSE),
              Task(i, "a", "", "", Nil, "unassigned", FALSE, FALSE),
              Task(i, "a", "", "", Nil, "c1", TRUE, TRUE) } : i \in TaskIds }

\* The column records the inputs are drawn from: a plain column, an edited
\* version (title and order differ) and a tombstone (deleteColumn).
ColumnVals ==
    UNION { { Column(i, "a", 0, FALSE, FALSE),
              Column(i, "b", 1, FALSE, FALSE),
              Column(i, "a", 0, TRUE, TRUE) } : i \in ColumnIds }

\* ------------------------------------------------------------------------
\* Sequence helpers
\* ------------------------------------------------------------------------

Range(s) == { s[i] : i \in DOMAIN s }

Ids(s) == { s[i].id : i \in DOMAIN s }

\* all orders in which a Go map with key set K can be iterated
IterationOrders(K) ==
    { o \in [1..Cardinality(K) -> K] : \A i, j \in DOMAIN o : i # j => o[i] # o[j] }

\* ------------------------------------------------------------------------
\* mergeKanbanData (handlers/data.go)
\* ------------------------------------------------------------------------

\* map[string]database.Column filled by "m[col.ID] = col" over a list: a
\* later column of the same id overwrites an earlier one
ColumnMap(cols) ==
    [id \in Ids(cols) |->
        cols[CHOOSE i \in DOMAIN cols :
                /\ cols[i].id = id
                /\ \A j \in DOMAIN cols : cols[j].id = id => j <= i]]

\* allServerTaskIDs / allClientTaskIDs: ids of the tasks list and of the
\* legacy unassignedTasks list
AllTaskIDs(data) == Ids(data.tasks) \cup Ids(data.unassignedTasks)

\* "if columnIDVal == "" { task.ColumnID = nil }"
EmptyToNil(task) ==
    IF task.columnId # Nil /\ task.columnId = ""
    THEN [task EXCEPT !.columnId = Nil] ELSE task

\* mutant: a task of a legacy list keeps the columnId it stored
ForceNil_KeepsColumn(task) == task

\* "task.ColumnID = nil" for the tasks of a legacy unassignedTasks list
ForceNil(task) == [task EXCEPT !.columnId = Nil]

\* mutant: the final pass rewrites only the empty string
FinalPass_EmptyOnly(task) ==
    IF task.columnId # Nil /\ task.columnId = ""
    THEN [task EXCEPT !.columnId = Nil] ELSE task

\* final verification pass
FinalPass(task) ==
    IF task.columnId # Nil /\ (task.columnId = "" \/ task.columnId = "unassigned")
    THEN [task EXCEPT !.columnId = Nil] ELSE task

\* one pass of each of these loop bodies over a task list
EmptyToNilAll(tasks) == [i \in DOMAIN tasks |-> EmptyToNil(tasks[i])]

ForceNilAll(tasks) == [i \in DOMAIN tasks |-> ForceNil(tasks[i])]

FinalPassAll(tasks) == [i \in DOMAIN tasks |-> FinalPass(tasks[i])]

\* mutant: every column of the serverColumns map is appended, also one the
\* client holds
ServerOnlyColumns_Unfiltered(serverData, clientData, order) ==
    LET serverColumns == ColumnMap(serverData.columns)
    IN  [i \in DOMAIN order |-> serverColumns[order[i]]]

\* the server columns that do not exist in the client, in the order the
\* range over the serverColumns map yields them
ServerOnlyColumns(serverData, clientData, order) ==
    LET serverColumns == ColumnMap(serverData.columns)
        clientColumns == ColumnMap(clientData.columns)
        kept == SelectSeq(order, LAMBDA id : id \notin DOMAIN clientColumns)
    IN  [i \in DOMAIN kept |-> serverColumns[kept[i]]]

\* the client tasks: the tasks list, then the legacy list
ClientTasks(clientData) ==
    EmptyToNilAll(clientData.tasks) \o ForceNilAll(clientData.unassignedTasks)

\* mutant: every server task is appended, also one the client holds
ServerOnlyTasks_Unfiltered(serverData, clientData) ==
    EmptyToNilAll(serverData.tasks) \o ForceNilAll(serverData.unassignedTasks)

\* mutant: the lookup uses allServerTaskIDs instead of allClientTaskIDs
ServerOnlyTasks_WrongMap(serverData, clientData) ==
    LET allServerTaskIDs == AllTaskIDs(serverData)
        absent(task) == task.id \notin allServerTaskIDs
    IN  EmptyToNilAll(SelectSeq(serverData.tasks, absent))
        \o ForceNilAll(SelectSeq(serverData.unassignedTasks, absent))

\* the server tasks that do not exist in the client at all: the tasks list,
\* then the legacy list
ServerOnlyTasks(serverData, clientData) ==
    LET allClientTaskIDs == AllTaskIDs(clientData)
        absent(task) == task.id \notin allClientTaskIDs
    IN  EmptyToNilAll(SelectSeq(serverData.tasks, absent))
        \o ForceNilAll(SelectSeq(serverData.unassignedTasks, absent))

\* mutant: on an id collision the server's task is kept, the client's dropped
mergeKanbanData_ServerTasksWin(serverData, clientData, order) ==
    KanbanData(
        clientData.columns \o ServerOnlyColumns(serverData, clientData, order),
        FinalPassAll(
               ClientTasks(serverData) \o ServerOnlyTasks(clientData, serverData)),
        <<>>,
        clientData.unassignedCollapsed)

\* order: the iteration order of the serverColumns map (unspecified in Go)
mergeKanbanData(serverData, clientData, order) ==
    KanbanData(
        clientData.columns \o ServerOnlyColumns(serverData, clientData, order),
        FinalPassAll(
               ClientTasks(clientData) \o ServerOnlyTasks(serverData, clientData)),
        <<>>,
        clientData.unassignedCollapsed)

\* the results mergeKanbanData can return for one pair of inputs
MergeResults(serverData, clientData) ==
    { mergeKanbanData(serverData, clientData, o) :
        o \in IterationOrders(DOMAIN ColumnMap(serverData.columns)) }

\* ------------------------------------------------------------------------
\* State
\* ------------------------------------------------------------------------

VARIABLES
    serverData,     \* mergeKanbanData: first argument
    clientData,     \* mergeKanbanData: second argument
    result,         \* value returned by the latest call
    prevResult,     \* value returned by the call before it
    mergeCalls,     \* "none", "once", "twice": calls made on these inputs
    Clients,        \* Hub.Clients: the live set
    send,           \* Client.Send of each session: the queued messages
    closed,         \* whether Client.Send has been closed
    conn,           \* Client.Conn: "none", "upgraded" (the handler has not
                    \* registered the session yet), "open", "closed"
    rpc,            \* position of each session's ReadPump
    rmsg,           \* the jsonMessage a ReadPump is handing to the hub
    wpc,            \* position of each session's WritePump
    panicked,       \* "" or the runtime panic that ended the process
    lastReq,        \* the request the hub loop served last, and its effect
    events,         \* number of outside stimuli so far
    store,          \* table user_data: the row of each email
    syncReq,        \* the SyncData request handlers: position and locals
    handed,         \* the messages SyncData handed to Hub.Broadcast
    coord,          \* the coordinator of each session's page: AuthManager,
                    \* KanbanApp and localStorage fields
    fetch,          \* the coordinator's pending POST /api/data/sync calls
    pull,           \* the coordinator's pending GET /api/data/get call
    inbox           \* the frames written to a session's connection that its
                    \* coordinator has not handled yet

mergeVars == <<serverData, clientData, result, prevResult, mergeCalls>>

\* the hub and its sessions, without the count of stimuli
hubState == <<Clients, send, closed, conn, rpc, rmsg, wpc, panicked, lastReq>>

hubVars == <<Clients, send, closed, conn, rpc, rmsg, wpc, panicked, lastReq, events>>

syncVars == <<store, syncReq, handed>>

clientVars == <<coord, fetch, pull, inbox>>

vars == <<mergeVars, hubVars, syncVars, clientVars>>

\* ------------------------------------------------------------------------
\* Sessions and messages (services: Client, WebSocketMessage)
\* ------------------------------------------------------------------------

\* the connections of the model: A and C are two tabs of one account
Sessions == {"A", "B", "C"}

\* Client.Email
Email == [c \in Sessions |-> IF c = "B" THEN "bob" ELSE "alice"]

Emails == { Email[c] : c \in Sessions }

\* services.WebSocketMessage
WebSocketMessage(type, data, user) == [type |-> type, data |-> data, user |-> user]

NoMsg == WebSocketMessage("", "", "")

\* the inbound frames a client can send: a payload that is no JSON envelope,
\* or an envelope of type ping or taskMove with any user field
Frames ==
    { [malformed |-> TRUE, type |-> "", user |-> ""] }
    \cup [malformed : {FALSE}, type : {"ping", "taskMove"}, user : {""} \cup Emails]

NoReq == [kind |-> "none", client |-> "", msg |-> NoMsg,
          delivered |-> {}, dropped |-> {}]

\* the state of the hub part before any connection is made (NewHub)
HubInit ==
    /\ Clients = {}
    /\ send = [c \in Sessions |-> <<>>]
    /\ closed = [c \in Sessions |-> FALSE]
    /\ conn = [c \in Sessions |-> "none"]
    /\ rpc = [c \in Sessions |-> "off"]
    /\ rmsg = [c \in Sessions |-> NoMsg]
    /\ wpc = [c \in Sessions |-> "off"]
    /\ panicked = ""
    /\ lastReq = NoReq
    /\ events = 0

\* the HTTP requests of the push specification
Requests == {"r1", "r2"}

NoData == KanbanData(<<>>, <<>>, <<>>, FALSE)

\* a handler that has not been entered
NoRequest ==
    [pc |-> "idle", email |-> "", clientData |-> NoData, serverData |-> NoData,
     mergedData |-> NoData, status |-> 0]

\* the state of the push part before any request: no row in user_data
SyncInit ==
    /\ store = [e \in Emails |-> [present |-> FALSE, data |-> NoData]]
    /\ syncReq = [r \in Requests |-> NoRequest]
    /\ handed = <<>>

\* the state of the merge part when no merge is looked at
MergeIdle ==
    /\ serverData = KanbanData(<<>>, <<>>, <<>>, TRUE)
    /\ clientData = KanbanData(<<>>, <<>>, <<>>, TRUE)
    /\ result = KanbanData(<<>>, <<>>, <<>>, FALSE)
    /\ prevResult = KanbanData(<<>>, <<>>, <<>>, FALSE)
    /\ mergeCalls = "none"

\* ------------------------------------------------------------------------
\* The state of a coordinator (AuthManager, KanbanApp, localStorage)
\* ------------------------------------------------------------------------

\* the board object of the page: KanbanApp.data
Board(columns, tasks, unassignedCollapsed) ==
    [columns |-> columns, tasks |-> tasks,
     unassignedCollapsed |-> unassignedCollapsed]

\* a *KanbanData written by json.Encode / json.Marshal and read by
\* response.json() / JSON.parse: unassignedTasks is omitted when empty
\* (omitempty); an omitted deleted or hidden reads as false
Encode(k) ==
    IF k.unassignedTasks = <<>>
    THEN Board(k.columns, k.tasks, k.unassignedCollapsed)
    ELSE k

\* a board written by JSON.stringify and read by json.Decode into a
\* database.KanbanData: a missing unassignedTasks is the empty list
Decode(b) ==
    KanbanData(b.columns, b.tasks,
               IF "unassignedTasks" \in DOMAIN b THEN b.unassignedTasks ELSE <<>>,
               b.unassignedCollapsed)

\* localStorage.getItem returns null
NoItem == [present |-> FALSE, value |-> Board(<<>>, <<>>, FALSE)]

\* localStorage.setItem(key, JSON.stringify(value))
Item(value) == [present |-> TRUE, value |-> value]

\* the empty board of the KanbanApp constructor and of logout
DefaultData == Board(<<>>, <<>>, TRUE)

\* a page that is not loaded: nothing stored, no socket, no timer armed.
\* ws is the readyState of AuthManager.ws or "null"; closing tells that a
\* socket AuthManager.ws no longer refers to is in its closing handshake
\* with its onclose handler attached; a timer field tells whether the
\* timer is armed
NoCoordinator ==
    [data |-> DefaultData, syncTimeout |-> 0,
     kanbanData |-> NoItem, userEmail |-> FALSE,
     authToken |-> FALSE, isAuthenticated |-> FALSE, verifying |-> FALSE,
     ws |-> "null", closing |-> FALSE,
     wsReconnectTimer |-> FALSE, heartbeatInterval |-> FALSE,
     syncIntervalId |-> FALSE, syncLater |-> FALSE]

\* no call of syncData is waiting for its response
NoFetch == [client |-> "", then |-> FALSE]

\* no call of fetchUserData is waiting for its response
NoPull == [pc |-> "none", status |-> 0, data |-> DefaultData]

\* the state of the coordinators when no page is loaded
ClientIdle ==
    /\ coord = [c \in Sessions |-> NoCoordinator]
    /\ fetch = [r \in Requests |-> NoFetch]
    /\ pull = [c \in Sessions |-> NoPull]
    /\ inbox = [c \in Sessions |-> <<>>]

\* ------------------------------------------------------------------------
\* Merge specification: the inputs are drawn at Init, the action calls
\* mergeKanbanData on them (twice, to compare two invocations)
\* ------------------------------------------------------------------------

SeqsOfLen(S, k) == [1..k -> S]

\* an arbitrary pair of snapshots holding at most MaxItems records together
\* (GetUserData's snapshot and the decoded request body), the two with
\* different unassignedCollapsed
AnyInputs ==
    \E sc \in 0..MaxItems :
    \E cc \in 0..(MaxItems - sc) :
    \E st \in 0..(MaxItems - sc - cc) :
    \E ct \in 0..(MaxItems - sc - cc - st) :
    \E su \in 0..(MaxItems - sc - cc - st - ct) :
    \E cu \in 0..(MaxItems - sc - cc - st - ct - su) :
    \E scols \in SeqsOfLen(ColumnVals, sc), ccols \in SeqsOfLen(ColumnVals, cc),
       stasks \in SeqsOfLen(TaskVals, st), ctasks \in SeqsOfLen(TaskVals, ct),
       sun \in SeqsOfLen(TaskVals, su), cun \in SeqsOfLen(TaskVals, cu) :
        /\ serverData = KanbanData(scols, stasks, sun, TRUE)
        /\ clientData = KanbanData(ccols, ctasks, cun, FALSE)

\* the same snapshot of at most MaxItems records on both sides (a client
\* that pushes back exactly what the server stores)
EqualInputs ==
    \E c \in 0..MaxItems :
    \E t \in 0..(MaxItems - c) :
    \E u \in 0..(MaxItems - c - t) :
    \E cols \in SeqsOfLen(ColumnVals, c), tasks \in SeqsOfLen(TaskVals, t),
       un \in SeqsOfLen(TaskVals, u), coll \in BOOLEAN :
        /\ serverData = KanbanData(cols, tasks, un, coll)
        /\ clientData = serverData

MergeInputs == AnyInputs \/ EqualInputs

MergeInit ==
    /\ HubInit
    /\ SyncInit
    /\ ClientIdle
    /\ MergeInputs
    /\ result = NoData
    /\ prevResult = NoData
    /\ mergeCalls = "none"

Merge ==
    /\ mergeCalls \in {"none", "once"}
    /\ \E r \in MergeResults(serverData, clientData) : result' = r
    /\ prevResult' = result
    /\ mergeCalls' = IF mergeCalls = "none" THEN "once" ELSE "twice"
    /\ UNCHANGED <<serverData, clientData>>
    /\ UNCHANGED <<hubVars, syncVars, clientVars>>

MergeNext == Merge

SpecMerge == MergeInit /\ [][MergeNext]_vars

\* ------------------------------------------------------------------------
\* Hub.Run (services): the cases of the event loop
\* ------------------------------------------------------------------------

running == panicked = ""

\* one more stimulus from outside is taken
Stimulus ==
    /\ events < MaxEvents
    /\ events' = events + 1

\* mutant: no session is skipped
Skipped_Nobody(c, message) == FALSE

\* "if excludeEmail != "" && client.Email == excludeEmail { continue }"
Skipped(c, message) == message.user # "" /\ Email[c] = message.user

\* the live sessions the loop offers the message to
Targets(message) == { c \in Clients : ~Skipped(c, message) }

\* "select { case client.Send <- message: ... default: ... }": the default
\* branch is taken when the buffer of the channel is full
QueueFull(c) == Len(send[c]) >= SendCap

\* the hub loop is at its select, ready to receive from one of its three
\* unbuffered channels; it is not while it serves a broadcast it received
HubAtSelect == lastReq.kind # "serving"

\* the sessions whose HandleWebSocket handler is in its range over
\* h.hub.Clients, a read of the map outside the hub loop
Ranging == { c \in Sessions : conn[c] = "upgraded" }

\* the hub loop writes the map h.Clients: a data race when a handler other
\* than that of c is ranging over it; the runtime may detect it and end the
\* process, or not (p: the value of panicked without the race)
MapWrite(c, p) ==
    IF Ranging \ {c} # {} /\ p = ""
    THEN {p, "concurrent map iteration and map write"}
    ELSE {p}

\* case client := <-h.register
HubRegister(c) ==
    /\ Clients' = Clients \cup {c}
    /\ lastReq' = [NoReq EXCEPT !.kind = "register", !.client = c]
    /\ panicked' \in MapWrite(c, panicked)
    /\ UNCHANGED <<send, closed>>

\* mutant: the queue is closed without looking the session up in the live set
HubUnregister_Unchecked(c) ==
    /\ Clients' = Clients \ {c}
    /\ closed' = [closed EXCEPT ![c] = TRUE]
    /\ panicked' = IF closed[c] THEN "close of closed channel" ELSE panicked
    /\ lastReq' = [NoReq EXCEPT !.kind = "unregister", !.client = c,
                                !.dropped = {c} \cap Clients]
    /\ UNCHANGED send

\* case client := <-h.unregister
HubUnregister(c) ==
    /\ IF c \in Clients
       THEN /\ Clients' = Clients \ {c}
            /\ closed' = [closed EXCEPT ![c] = TRUE]
            /\ panicked' \in MapWrite(c, IF closed[c] THEN "close of closed channel"
                                                    ELSE panicked)
            /\ lastReq' = [NoReq EXCEPT !.kind = "unregister", !.client = c,
                                        !.dropped = {c}]
       ELSE /\ UNCHANGED <<Clients, closed, panicked>>
            /\ lastReq' = [NoReq EXCEPT !.kind = "unregister", !.client = c]
    /\ UNCHANGED send

\* mutant: the message is put at the head of each queue
HubBroadcast_AtHead(message) ==
    LET targets == Targets(message)
        full == { c \in targets : QueueFull(c) }
    IN  /\ send' = [c \in Sessions |->
                      IF c \in targets \ full /\ ~closed[c]
                      THEN <<message>> \o send[c] ELSE send[c]]
        /\ closed' = [c \in Sessions |-> closed[c] \/ c \in full]
        /\ Clients' = Clients \ full
        /\ LET p == IF \E c \in targets \ full : closed[c]
                       THEN "send on closed channel"
                     ELSE IF \E c \in full : closed[c]
                       THEN "close of closed channel"
                     ELSE panicked
           IN  panicked' \in IF full = {} THEN {p} ELSE MapWrite("", p)
        /\ lastReq' = [NoReq EXCEPT !.kind = "broadcast", !.msg = message,
                                    !.delivered = targets \ full,
                                    !.dropped = full]

\* mutant: a session whose queue is full and closed stays in the live set
HubBroadcast_KeepsDropped(message) ==
    LET targets == Targets(message)
        full == { c \in targets : QueueFull(c) }
    IN  /\ send' = [c \in Sessions |->
                      IF c \in targets \ full /\ ~closed[c]
                      THEN Append(send[c], message) ELSE send[c]]
        /\ closed' = [c \in Sessions |-> closed[c] \/ c \in full]
        /\ Clients' = Clients
        /\ LET p == IF \E c \in targets \ full : closed[c]
                       THEN "send on closed channel"
                     ELSE IF \E c \in full : closed[c]
                       THEN "close of closed channel"
                     ELSE panicked
           IN  panicked' \in IF full = {} THEN {p} ELSE MapWrite("", p)
        /\ lastReq' = [NoReq EXCEPT !.kind = "broadcast", !.msg = message,
                                    !.delivered = targets \ full,
                                    !.dropped = full]

\* case message := <-h.broadcast: the loop over h.Clients
HubBroadcast(message) ==
    LET targets == Targets(message)
        full == { c \in targets : QueueFull(c) }
    IN  /\ send' = [c \in Sessions |->
                      IF c \in targets \ full /\ ~closed[c]
                      THEN Append(send[c], message) ELSE send[c]]
        /\ closed' = [c \in Sessions |-> closed[c] \/ c \in full]
        /\ Clients' = Clients \ full
        /\ LET p == IF \E c \in targets \ full : closed[c]
                       THEN "send on closed channel"
                     ELSE IF \E c \in full : closed[c]
                       THEN "close of closed channel"
                     ELSE panicked
           IN  panicked' \in IF full = {} THEN {p} ELSE MapWrite("", p)
        /\ lastReq' = [NoReq EXCEPT !.kind = "broadcast", !.msg = message,
                                    !.delivered = targets \ full,
                                    !.dropped = full]

\* ------------------------------------------------------------------------
\* DataHandler.HandleWebSocket, Hub.Broadcast and the two pumps of a session
\* ------------------------------------------------------------------------

\* HandleWebSocket up to its range over h.hub.Clients: the connection is
\* upgraded and the handler reads the live set, held by the hub loop
Upgrade(c) ==
    /\ running
    /\ conn[c] = "none"
    /\ conn' = [conn EXCEPT ![c] = "upgraded"]
    /\ UNCHANGED <<Clients, send, closed, rpc, rmsg, wpc, panicked, lastReq, events,
                   mergeVars, syncVars, clientVars>>

\* HandleWebSocket, as a whole or from where Upgrade left it: upgrade, range
\* over the live set, make the client with an empty queue, Register (the
\* hub loop receives it), start WritePump and ReadPump
HandleWebSocket(c) ==
    /\ running
    /\ conn[c] \in {"none", "upgraded"}
    /\ HubAtSelect
    /\ conn' = [conn EXCEPT ![c] = "open"]
    /\ HubRegister(c)
    /\ rpc' = [rpc EXCEPT ![c] = "read"]
    /\ wpc' = [wpc EXCEPT ![c] = "run"]
    /\ UNCHANGED <<rmsg, events, mergeVars, syncVars, clientVars>>

\* Hub.Broadcast(message, excludeEmail): the user field is overwritten with
\* excludeEmail and the message handed to the hub loop
Broadcast(message, excludeEmail) ==
    /\ running
    /\ HubAtSelect
    /\ Stimulus
    /\ HubBroadcast([message EXCEPT !.user = excludeEmail])
    /\ UNCHANGED <<conn, rpc, rmsg, wpc, mergeVars, syncVars, clientVars>>

\* mutant: a frame that cannot be decoded ends the read loop
ReadOne_MalformedFatal(c, frame, data) ==
    /\ running
    /\ rpc[c] = "read" /\ conn[c] = "open"
    /\ Stimulus
    /\ IF frame.malformed
       THEN /\ rpc' = [rpc EXCEPT ![c] = "unregister"]
            /\ UNCHANGED rmsg
       ELSE IF frame.type = "ping"
       THEN /\ rpc' = [rpc EXCEPT ![c] = "pong"]
            /\ UNCHANGED rmsg
       ELSE /\ rpc' = [rpc EXCEPT ![c] = "forward"]
            /\ rmsg' = [rmsg EXCEPT ![c] =
                          WebSocketMessage(frame.type, data, Email[c])]
    /\ UNCHANGED <<Clients, send, closed, conn, wpc, panicked, lastReq, mergeVars, syncVars, clientVars>>

\* mutant: the user field of the payload is kept when the client set it
ReadOne_TrustsUser(c, frame, data) ==
    /\ running
    /\ rpc[c] = "read" /\ conn[c] = "open"
    /\ Stimulus
    /\ IF frame.malformed
       THEN UNCHANGED <<rpc, rmsg>>
       ELSE IF frame.type = "ping"
       THEN /\ rpc' = [rpc EXCEPT ![c] = "pong"]
            /\ UNCHANGED rmsg
       ELSE /\ rpc' = [rpc EXCEPT ![c] = "forward"]
            /\ rmsg' = [rmsg EXCEPT ![c] =
                          WebSocketMessage(frame.type, data,
                                           IF frame.user # "" THEN frame.user
                                           ELSE Email[c])]
    /\ UNCHANGED <<Clients, send, closed, conn, wpc, panicked, lastReq, mergeVars, syncVars, clientVars>>

\* ReadPump: ReadMessage returns the frame; a malformed one is skipped
\* (json.Unmarshal fails: continue), a ping is to be answered, any other is
\* stamped with the session's email and is to be forwarded; data is the
\* payload of the frame
ReadOne(c, frame, data) ==
    /\ running
    /\ rpc[c] = "read" /\ conn[c] = "open"
    /\ Stimulus
    /\ IF frame.malformed
       THEN UNCHANGED <<rpc, rmsg>>
       ELSE IF frame.type = "ping"
       THEN /\ rpc' = [rpc EXCEPT ![c] = "pong"]
            /\ UNCHANGED rmsg
       ELSE /\ rpc' = [rpc EXCEPT ![c] = "forward"]
            /\ rmsg' = [rmsg EXCEPT ![c] =
                          WebSocketMessage(frame.type, data, Email[c])]
    /\ UNCHANGED <<Clients, send, closed, conn, wpc, panicked, lastReq, mergeVars, syncVars, clientVars>>

\* ReadPump: ReadMessage returns a frame, which is read as above
ReadFrame(c, data) == \E frame \in Frames : ReadOne(c, frame, data)

\* ReadPump reads a frame whose payload is a move
ReadMessage(c) == ReadFrame(c, "move")

\* ReadPump: ReadMessage fails (the peer went away, the read deadline passed
\* or the connection was closed by WritePump); the loop is left
ReadError(c) ==
    /\ running
    /\ rpc[c] = "read"
    /\ IF conn[c] = "open" THEN Stimulus ELSE UNCHANGED events
    /\ rpc' = [rpc EXCEPT ![c] = "unregister"]
    /\ UNCHANGED <<Clients, send, closed, conn, rmsg, wpc, panicked, lastReq, mergeVars, syncVars, clientVars>>

\* ReadPump: "c.Send <- pongJSON", a blocking send: it waits while the queue
\* is full and panics when the channel is closed
SendPong(c) ==
    /\ running
    /\ rpc[c] = "pong"
    /\ IF closed[c]
       THEN /\ panicked' = "send on closed channel"
            /\ UNCHANGED <<send, rpc>>
       ELSE /\ ~QueueFull(c)
            /\ send' = [send EXCEPT ![c] =
                          Append(@, WebSocketMessage("pong", "timestamp", ""))]
            /\ rpc' = [rpc EXCEPT ![c] = "read"]
            /\ UNCHANGED panicked
    /\ UNCHANGED <<Clients, closed, conn, rmsg, wpc, lastReq, events, mergeVars, syncVars, clientVars>>

\* ReadPump: "c.Hub.broadcast <- jsonMessage", received by the hub loop
Forward(c) ==
    /\ running
    /\ rpc[c] = "forward"
    /\ HubAtSelect
    /\ HubBroadcast(rmsg[c])
    /\ rpc' = [rpc EXCEPT ![c] = "read"]
    /\ rmsg' = [rmsg EXCEPT ![c] = NoMsg]
    /\ UNCHANGED <<conn, wpc, events, mergeVars, syncVars, clientVars>>

\* ReadPump: the deferred c.Hub.Unregister(c), received by the hub loop, and
\* c.Conn.Close()
Unregister(c) ==
    /\ running
    /\ rpc[c] = "unregister"
    /\ HubAtSelect
    /\ HubUnregister(c)
    /\ rpc' = [rpc EXCEPT ![c] = "done"]
    /\ conn' = [conn EXCEPT ![c] = "closed"]
    /\ UNCHANGED <<rmsg, wpc, events, mergeVars, syncVars, clientVars>>

\* WritePump: a message is received from the queue and written with all the
\* messages queued behind it; NextWriter or w.Close may fail, which ends the
\* pump and closes the connection
WriteMessages(c) ==
    /\ running
    /\ wpc[c] = "run" /\ send[c] # <<>>
    /\ \E outcome \in {"written", "NextWriter failed", "Close failed"} :
         /\ outcome = "written" => conn[c] = "open"
         /\ IF outcome # "written" /\ conn[c] = "open"
            THEN Stimulus ELSE UNCHANGED events
         /\ send' = [send EXCEPT ![c] =
                       IF outcome = "NextWriter failed" THEN Tail(@) ELSE <<>>]
         /\ wpc' = [wpc EXCEPT ![c] = IF outcome = "written" THEN "run" ELSE "done"]
         /\ conn' = [conn EXCEPT ![c] = IF outcome = "written" THEN @ ELSE "closed"]
    /\ UNCHANGED <<Clients, closed, rpc, rmsg, panicked, lastReq, mergeVars, syncVars, clientVars>>

\* WritePump: the queue is closed and empty; the close frame is written and
\* the pump returns, closing the connection
WriteClose(c) ==
    /\ running
    /\ wpc[c] = "run" /\ send[c] = <<>> /\ closed[c]
    /\ wpc' = [wpc EXCEPT ![c] = "done"]
    /\ conn' = [conn EXCEPT ![c] = "closed"]
    /\ UNCHANGED <<Clients, send, closed, rpc, rmsg, panicked, lastReq, events, mergeVars, syncVars, clientVars>>

\* WritePump: the ticker fires and the ping frame cannot be written
PingFailed(c) ==
    /\ running
    /\ wpc[c] = "run"
    /\ IF conn[c] = "open" THEN Stimulus ELSE UNCHANGED events
    /\ wpc' = [wpc EXCEPT ![c] = "done"]
    /\ conn' = [conn EXCEPT ![c] = "closed"]
    /\ UNCHANGED <<Clients, send, closed, rpc, rmsg, panicked, lastReq, mergeVars, syncVars, clientVars>>

HubNext ==
    \/ \E c \in Sessions : HandleWebSocket(c)
    \/ \E e \in {""} \cup Emails :
         Broadcast(WebSocketMessage("sync", "board", ""), e)
    \/ \E c \in Sessions : ReadMessage(c)
    \/ \E c \in Sessions : ReadError(c)
    \/ \E c \in Sessions : SendPong(c)
    \/ \E c \in Sessions : Forward(c)
    \/ \E c \in Sessions : Unregister(c)
    \/ \E c \in Sessions : WriteMessages(c)
    \/ \E c \in Sessions : WriteClose(c)
    \/ \E c \in Sessions : PingFailed(c)

\* the hub specification starts with a new hub and no connection
InitHub == HubInit /\ MergeIdle /\ SyncInit /\ ClientIdle

SpecHub == InitHub /\ [][HubNext]_vars

\* Hub.Broadcast up to the moment the hub loop has received the message
\* from h.broadcast: the call returns, the loop starts to serve the message
BroadcastReceive(message, excludeEmail) ==
    /\ running
    /\ HubAtSelect
    /\ Stimulus
    /\ lastReq' = [NoReq EXCEPT !.kind = "serving",
                                !.msg = [message EXCEPT !.user = excludeEmail]]
    /\ UNCHANGED <<Clients, send, closed, conn, rpc, rmsg, wpc, panicked,
                   mergeVars, syncVars, clientVars>>

\* the hub loop serves the broadcast it has received: the loop over
\* h.Clients, then back to the select
BroadcastServe ==
    /\ running
    /\ lastReq.kind = "serving"
    /\ HubBroadcast(lastReq.msg)
    /\ UNCHANGED <<conn, rpc, rmsg, wpc, events, mergeVars, syncVars, clientVars>>

\* the hub specification with the service of a broadcast in two steps, the
\* receive from the channel and the loop over the live set
HubLoopNext ==
    \/ \E e \in {""} \cup Emails :
         BroadcastReceive(WebSocketMessage("sync", "board", ""), e)
    \/ BroadcastServe
    \/ HubNext

SpecHubLoop == InitHub /\ [][HubLoopNext]_vars

\* the hub specification with the handshake of HandleWebSocket in two
\* steps: the range over the live set, then the registration
HandshakeNext ==
    \/ \E c \in Sessions : Upgrade(c)
    \/ HubNext

SpecHandshake == InitHub /\ [][HandshakeNext]_vars

\* ------------------------------------------------------------------------
\* DataHandler.SyncData with DataService.GetUserData / SaveUserData
\* ------------------------------------------------------------------------

\* the task and column records of the pushed snapshots
PushTaskVals ==
    { Task("t1", "a", "", "", Nil, "c1", FALSE, FALSE),
      Task("t1", "a", "", "", Nil, "c1", TRUE, TRUE),
      Task("t2", "a", "", "", Nil, "", FALSE, FALSE) }

PushColumnVals ==
    { Column("c1", "a", 0, FALSE, FALSE), Column("c2", "a", 1, FALSE, FALSE) }

\* the request bodies: json.Decode into database.KanbanData
PushBodies ==
    { KanbanData(cols, tasks, <<>>, TRUE) :
        cols \in UNION { SeqsOfLen(PushColumnVals, k) : k \in 0..MaxPush },
        tasks \in UNION { SeqsOfLen(PushTaskVals, k) : k \in 0..MaxPush } }

\* DataService.GetUserData: the stored snapshot, or an empty one with
\* unassignedCollapsed true when the email has no row
GetUserData(email) ==
    IF store[email].present THEN store[email].data
    ELSE KanbanData(<<>>, <<>>, <<>>, TRUE)

\* SyncData is entered: the email comes from the request context, the body
\* is decoded
SyncDecode(r) ==
    /\ syncReq[r].pc = "idle"
    /\ \E email \in Emails, body \in PushBodies :
         syncReq' = [syncReq EXCEPT ![r] =
                       [NoRequest EXCEPT !.pc = "decoded", !.email = email,
                                         !.clientData = body]]
    /\ UNCHANGED <<store, handed, mergeVars, hubVars, clientVars>>

\* "serverData, err := h.dataService.GetUserData(email)"
SyncLoad(r) ==
    /\ syncReq[r].pc = "decoded"
    /\ \E ok \in BOOLEAN :
         syncReq' = IF ok
                    THEN [syncReq EXCEPT ![r].pc = "loaded",
                                         ![r].serverData = GetUserData(syncReq[r].email)]
                    ELSE [syncReq EXCEPT ![r].pc = "done", ![r].status = 500]
    /\ UNCHANGED <<store, handed, mergeVars, hubVars, clientVars>>

\* mutant: a failed SaveUserData leaves its upsert behind
SyncMergeSave_WritesOnFailure(r) ==
    /\ syncReq[r].pc = "loaded"
    /\ \E m \in MergeResults(syncReq[r].serverData, syncReq[r].clientData),
          ok \in BOOLEAN :
         /\ store' = [store EXCEPT ![syncReq[r].email] =
                        [present |-> TRUE, data |-> m]]
         /\ syncReq' = IF ok
                       THEN [syncReq EXCEPT ![r].pc = "saved", ![r].mergedData = m]
                       ELSE [syncReq EXCEPT ![r].pc = "done", ![r].mergedData = m,
                                            ![r].status = 500]
    /\ UNCHANGED <<handed, mergeVars, hubVars, clientVars>>

\* "mergedData := mergeKanbanData(serverData, &clientData)" and
\* "h.dataService.SaveUserData(email, mergedData)": the upsert commits or
\* fails as a whole
SyncMergeSave(r) ==
    /\ syncReq[r].pc = "loaded"
    /\ \E m \in MergeResults(syncReq[r].serverData, syncReq[r].clientData),
          ok \in BOOLEAN :
         IF ok
         THEN /\ store' = [store EXCEPT ![syncReq[r].email] =
                             [present |-> TRUE, data |-> m]]
              /\ syncReq' = [syncReq EXCEPT ![r].pc = "saved", ![r].mergedData = m]
         ELSE /\ syncReq' = [syncReq EXCEPT ![r].pc = "done", ![r].mergedData = m,
                                            ![r].status = 500]
              /\ UNCHANGED store
    /\ UNCHANGED <<handed, mergeVars, hubVars, clientVars>>

\* "h.hub.Broadcast(message, "")" with the sync message of the merged data:
\* the message is handed to the hub loop, which offers it to the live
\* sessions; kept tells whether the message is kept in handed, the record
\* of the messages handed over
BroadcastSync(r, kept) ==
    /\ syncReq[r].pc = "saved"
    /\ HubAtSelect
    /\ handed' = IF kept
                 THEN Append(handed,
                        [msg |-> WebSocketMessage("sync", syncReq[r].mergedData, ""),
                         excludeEmail |-> "", request |-> r,
                         email |-> syncReq[r].email])
                 ELSE handed
    /\ HubBroadcast(WebSocketMessage("sync", syncReq[r].mergedData, ""))
    /\ syncReq' = [syncReq EXCEPT ![r].pc = "broadcast"]
    /\ UNCHANGED <<store, conn, rpc, rmsg, wpc, events, mergeVars, clientVars>>

\* mutant: the broadcast excludes the identity that pushed
SyncBroadcast_ExcludesSender(r) ==
    /\ syncReq[r].pc = "saved"
    /\ HubAtSelect
    /\ handed' = Append(handed,
                        [msg |-> WebSocketMessage("sync", syncReq[r].mergedData, ""),
                         excludeEmail |-> syncReq[r].email, request |-> r,
                         email |-> syncReq[r].email])
    /\ HubBroadcast(WebSocketMessage("sync", syncReq[r].mergedData,
                                     syncReq[r].email))
    /\ syncReq' = [syncReq EXCEPT ![r].pc = "broadcast"]
    /\ UNCHANGED <<store, conn, rpc, rmsg, wpc, events, mergeVars, clientVars>>

\* SyncData hands its sync message to the hub
SyncBroadcast(r) == BroadcastSync(r, TRUE)

\* the success response with the merged data
SyncRespond(r) ==
    /\ syncReq[r].pc = "broadcast"
    /\ syncReq' = [syncReq EXCEPT ![r].pc = "done", ![r].status = 200]
    /\ UNCHANGED <<store, handed, mergeVars, hubVars, clientVars>>

SyncNext ==
    \/ \E r \in Requests : SyncDecode(r)
    \/ \E r \in Requests : SyncLoad(r)
    \/ \E r \in Requests : SyncMergeSave(r)
    \/ \E r \in Requests : SyncBroadcast(r)
    \/ \E r \in Requests : SyncRespond(r)

\* the push specification starts with an empty user_data table
InitSync == SyncInit /\ HubInit /\ MergeIdle /\ ClientIdle

SpecSync == InitSync /\ [][SyncNext]_vars

\* ------------------------------------------------------------------------
\* AuthManager, KanbanApp and TaskHandler: the functions of a coordinator,
\* as functions of its state
\* ------------------------------------------------------------------------

\* one more input of a user, a timer or the network to a coordinator
Input ==
    /\ events < MaxInputs
    /\ events' = events + 1

\* the ids generateId returns, one for each input
NewIds == <<"n1", "n2", "n3", "n4">>

\* saveTask: "newTask = { id: generateId(), ...taskData }" of a task
\* without column; the title is the name of the session it is typed in
NewTask(id, c) == Task(id, c, "", "", Nil, Nil, FALSE, FALSE)

\* saveColumn: "newColumn = { id: generateId(), title, order }"
NewColumn(id, c, columns) ==
    Column(id, c,
           IF columns = <<>> THEN 0
           ELSE 1 + CHOOSE m \in { columns[i].order : i \in DOMAIN columns } :
                      \A i \in DOMAIN columns : columns[i].order <= m,
           FALSE, FALSE)

\* mutant: closeWebSocket leaves the reconnection timer armed
closeWebSocket_KeepsTimer(s) ==
    [s EXCEPT !.heartbeatInterval = FALSE,
              !.ws = "null",
              !.closing = s.closing \/ s.ws = "CLOSING"]

\* AuthManager.closeWebSocket: both timers are cleared; a socket that is
\* connecting or open loses its handlers and is closed with code 1000, a
\* socket that is closing keeps its onclose handler; this.ws = null
closeWebSocket(s) ==
    [s EXCEPT !.wsReconnectTimer = FALSE,
              !.heartbeatInterval = FALSE,
              !.ws = "null",
              !.closing = s.closing \/ s.ws = "CLOSING"]

\* AuthManager.setupWebSocket
setupWebSocket(s) ==
    IF ~s.isAuthenticated THEN s
    ELSE IF s.ws \in {"CONNECTING", "OPEN"} THEN s
    ELSE [closeWebSocket(s) EXCEPT !.ws = "CONNECTING",
                                   !.heartbeatInterval = TRUE]

\* AuthManager.logout
logout(s) ==
    [closeWebSocket([s EXCEPT !.authToken = FALSE, !.isAuthenticated = FALSE])
        EXCEPT !.syncIntervalId = FALSE,
               !.kanbanData = NoItem,
               !.userEmail = FALSE,
               !.data = DefaultData]

\* AuthManager.authenticateUser, up to the call of fetchUserData
authenticateUser(s) ==
    [s EXCEPT !.authToken = TRUE, !.isAuthenticated = TRUE, !.userEmail = TRUE]

\* mutant: the debounce timer that is armed is not cleared
saveToLocalStorage_KeepsTimer(s) ==
    [s EXCEPT !.kanbanData = Item(s.data),
              !.syncTimeout = IF s.isAuthenticated THEN @ + 1 ELSE @]

\* KanbanApp.saveToLocalStorage: the board is stored and, when
\* authenticated, the debounce timer that is armed is cleared and a new
\* one is armed (syncTimeout: the number of armed debounce timers)
saveToLocalStorage(s) ==
    [s EXCEPT !.kanbanData = Item(s.data),
              !.syncTimeout = IF s.isAuthenticated
                              THEN (IF @ > 0 THEN @ - 1 ELSE 0) + 1
                              ELSE @]

\* mutant: a failed pull empties the board
fetchUserDataResponse_ResetsOnError(s, status, data) ==
    IF status = 200
    THEN [s EXCEPT !.data = data, !.kanbanData = Item(data)]
    ELSE IF status = 401 THEN logout(s)
    ELSE [s EXCEPT !.data = DefaultData, !.kanbanData = NoItem]

\* AuthManager.fetchUserData after "await fetch": the answer of GetData
\* always carries a data object (GetUserData never returns nil), so the
\* branch of a missing body.data is never taken
fetchUserDataResponse(s, status, data) ==
    IF status = 200
    THEN [s EXCEPT !.data = data, !.kanbanData = Item(data)]
    ELSE IF status = 401 THEN logout(s)
    ELSE s

\* AuthManager.syncData after "await fetch"
syncDataResponse(s, status, data) ==
    IF status = 200
    THEN [s EXCEPT !.kanbanData = Item(data), !.data = data]
    ELSE IF status = 401 THEN logout(s)
    ELSE s

\* ws.onclose: "if (this.isAuthenticated && event.code !== 1000)" the
\* reconnection timer is armed
onclose(s, code) ==
    IF s.isAuthenticated /\ code # 1000
    THEN [s EXCEPT !.wsReconnectTimer = TRUE]
    ELSE s

\* ------------------------------------------------------------------------
\* The requests of a coordinator
\* ------------------------------------------------------------------------

FreeSlot(r) == syncReq[r].pc = "idle" /\ fetch[r].client = ""

\* AuthManager.syncData up to "await fetch", called in state s of the
\* coordinator of c: when authenticated, the POST carries the board;
\* then tells that setupWebSocket follows the response (startDataSync)
syncData(c, s, then) ==
    IF s.isAuthenticated
    THEN /\ \E r \in Requests : FreeSlot(r)
         /\ LET r == CHOOSE r \in Requests : FreeSlot(r)
            IN  /\ syncReq' = [syncReq EXCEPT ![r] =
                                 [NoRequest EXCEPT !.pc = "decoded",
                                                   !.email = Email[c],
                                                   !.clientData = Decode(s.data)]]
                /\ fetch' = [fetch EXCEPT ![r] = [client |-> c, then |-> then]]
    ELSE UNCHANGED <<syncReq, fetch>>

\* the authentication middleware answers 401 before SyncData is entered
Unauthorized(r) ==
    /\ syncReq[r].pc = "decoded" /\ fetch[r].client # ""
    /\ syncReq' = [syncReq EXCEPT ![r].pc = "done", ![r].status = 401]
    /\ UNCHANGED <<store, handed, mergeVars, hubVars, clientVars>>

\* the response of a push arrives, or the request fails in the network
\* (before it reached the server or after the server answered); the
\* continuation of syncData runs and, for the push of startDataSync,
\* setupWebSocket
SyncDataReturns(r, outcome) ==
    /\ fetch[r].client # ""
    /\ IF outcome = "response"
       THEN syncReq[r].pc = "done" /\ UNCHANGED events
       ELSE syncReq[r].pc \in {"decoded", "done"} /\ Input
    /\ LET c == fetch[r].client
           s1 == IF outcome = "response"
                 THEN syncDataResponse(coord[c], syncReq[r].status,
                                       Encode(syncReq[r].mergedData))
                 ELSE coord[c]
       IN  coord' = [coord EXCEPT ![c] =
                       IF fetch[r].then THEN setupWebSocket(s1) ELSE s1]
    /\ syncReq' = [syncReq EXCEPT ![r] = NoRequest]
    /\ fetch' = [fetch EXCEPT ![r] = NoFetch]
    /\ UNCHANGED <<store, handed, pull, inbox, mergeVars, hubState>>

\* DataHandler.GetData: the stored snapshot of the email is returned, or
\* the load fails, or the middleware rejects the token
GetData(c) ==
    /\ pull[c].pc = "sent"
    /\ \E status \in {200, 401, 500} :
         pull' = [pull EXCEPT ![c] =
                    [pc |-> "answered", status |-> status,
                     data |-> IF status = 200
                              THEN Encode(GetUserData(Email[c]))
                              ELSE DefaultData]]
    /\ UNCHANGED <<coord, fetch, inbox, mergeVars, hubVars, syncVars>>

\* the response of the pull arrives, or the request fails in the network;
\* the continuation of fetchUserData runs and then startDataSync: a push,
\* followed by setupWebSocket, and the 60 s interval
FetchUserDataReturns(c, outcome) ==
    /\ IF outcome = "response"
       THEN pull[c].pc = "answered" /\ UNCHANGED events
       ELSE pull[c].pc \in {"sent", "answered"} /\ Input
    /\ LET s1 == IF outcome = "response"
                 THEN fetchUserDataResponse(coord[c], pull[c].status, pull[c].data)
                 ELSE coord[c]
       IN  /\ syncData(c, s1, TRUE)
           /\ coord' = [coord EXCEPT ![c] =
                           [(IF s1.isAuthenticated THEN s1 ELSE setupWebSocket(s1))
                               EXCEPT !.syncIntervalId = TRUE]]
    /\ pull' = [pull EXCEPT ![c] = NoPull]
    /\ UNCHANGED <<store, handed, inbox, mergeVars, hubState>>

\* AuthManager.verifyToken after "await fetch": authenticateUser with the
\* call of fetchUserData, or logout
VerifyTokenReturns(c) ==
    /\ coord[c].verifying /\ pull[c].pc = "none"
    /\ \E valid \in BOOLEAN :
         IF valid
         THEN /\ coord' = [coord EXCEPT ![c] =
                             authenticateUser([coord[c] EXCEPT !.verifying = FALSE])]
              /\ pull' = [pull EXCEPT ![c].pc = "sent"]
         ELSE /\ coord' = [coord EXCEPT ![c] =
                             logout([coord[c] EXCEPT !.verifying = FALSE])]
              /\ UNCHANGED pull
    /\ UNCHANGED <<fetch, inbox, mergeVars, hubVars, syncVars>>

\* ------------------------------------------------------------------------
\* The edits of the user and the timers of a coordinator
\* ------------------------------------------------------------------------

\* KanbanApp.saveTask of a new task without column
saveTask(c) ==
    /\ Input
    /\ LET s == coord[c]
           d == [s.data EXCEPT !.tasks = Append(@, NewTask(NewIds[events + 1], c)),
                               !.unassignedCollapsed = FALSE]
       IN  coord' = [coord EXCEPT ![c] = saveToLocalStorage([s EXCEPT !.data = d])]
    /\ UNCHANGED <<fetch, pull, inbox, mergeVars, hubState, syncVars>>

\* KanbanApp.saveColumn of a new column
saveColumn(c) ==
    /\ Input
    /\ LET s == coord[c]
           d == [s.data EXCEPT !.columns =
                   Append(@, NewColumn(NewIds[events + 1], c, s.data.columns))]
       IN  coord' = [coord EXCEPT ![c] = saveToLocalStorage([s EXCEPT !.data = d])]
    /\ UNCHANGED <<fetch, pull, inbox, mergeVars, hubState, syncVars>>

\* TaskHandler.handleTaskDrop: the task is moved, the board stored, a push
\* made at once and, when the socket is not open, setupWebSocket called
\* (the taskMove frame of an open socket goes to the server)
handleTaskDrop(c) ==
    /\ Input
    /\ \E i \in DOMAIN coord[c].data.tasks,
          columnId \in {"unassigned"} \cup Ids(coord[c].data.columns) :
         LET s == coord[c]
             task == s.data.tasks[i]
             d == [s.data EXCEPT
                     !.tasks[i].columnId =
                        IF columnId = "unassigned" THEN Nil ELSE columnId,
                     !.unassignedCollapsed =
                        IF columnId = "unassigned" THEN FALSE ELSE @]
             s1 == saveToLocalStorage([s EXCEPT !.data = d])
         IN  /\ ~(columnId = "unassigned" /\ task.columnId = Nil)
             /\ ~(columnId # "unassigned" /\ task.columnId = columnId)
             /\ syncData(c, s1, FALSE)
             /\ coord' = [coord EXCEPT ![c] =
                             IF s1.isAuthenticated /\ s1.ws # "OPEN"
                             THEN setupWebSocket(s1) ELSE s1]
    /\ UNCHANGED <<store, handed, pull, inbox, mergeVars, hubState>>

\* the debounce timer of saveToLocalStorage fires
DebounceFires(c) ==
    /\ coord[c].syncTimeout > 0
    /\ syncData(c, coord[c], FALSE)
    /\ coord' = [coord EXCEPT ![c].syncTimeout = @ - 1]
    /\ UNCHANGED <<store, handed, pull, inbox, mergeVars, hubVars>>

\* the 60 s interval of startDataSync fires
SyncIntervalFires(c) ==
    /\ coord[c].syncIntervalId
    /\ Input
    /\ syncData(c, coord[c], FALSE)
    /\ UNCHANGED <<store, handed, coord, pull, inbox, mergeVars, hubState>>

\* a 1 s timer fires: the sync after a reconnection or after ws.onerror
SyncLaterFires(c) ==
    /\ coord[c].syncLater
    /\ syncData(c, coord[c], FALSE)
    /\ coord' = [coord EXCEPT ![c].syncLater = FALSE]
    /\ UNCHANGED <<store, handed, pull, inbox, mergeVars, hubVars>>

\* the user clicks the logout button
LogoutClick(c) ==
    /\ coord[c].isAuthenticated
    /\ Input
    /\ coord' = [coord EXCEPT ![c] = logout(@)]
    /\ UNCHANGED <<fetch, pull, inbox, mergeVars, hubState, syncVars>>

\* ------------------------------------------------------------------------
\* The socket of a coordinator
\* ------------------------------------------------------------------------

\* ws.onopen: a ping is sent and a push made
Onopen(c) ==
    /\ coord[c].ws = "CONNECTING"
    /\ syncData(c, coord[c], FALSE)
    /\ coord' = [coord EXCEPT ![c].ws = "OPEN"]
    /\ UNCHANGED <<store, handed, pull, inbox, mergeVars, hubVars>>

\* ws.onerror: a push is scheduled in 1 s
Onerror(c) ==
    /\ coord[c].ws \in {"CONNECTING", "OPEN"}
    /\ Input
    /\ coord' = [coord EXCEPT ![c].syncLater = TRUE]
    /\ UNCHANGED <<fetch, pull, inbox, mergeVars, hubState, syncVars>>

\* the server starts the closing handshake of the socket
ClosingHandshake(c) ==
    /\ coord[c].ws = "OPEN"
    /\ Input
    /\ coord' = [coord EXCEPT ![c].ws = "CLOSING"]
    /\ UNCHANGED <<fetch, pull, inbox, mergeVars, hubState, syncVars>>

\* the socket this.ws refers to is closed, after the handshake (code 1000)
\* or abruptly (code 1006, from outside), and ws.onclose runs
Onclose(c) ==
    /\ coord[c].ws \in {"CONNECTING", "OPEN", "CLOSING"}
    /\ \E code \in {1000, 1006} :
         /\ IF coord[c].ws = "CLOSING" /\ code = 1000
            THEN UNCHANGED events ELSE Input
         /\ coord' = [coord EXCEPT ![c] = onclose([@ EXCEPT !.ws = "CLOSED"], code)]
    /\ UNCHANGED <<fetch, pull, inbox, mergeVars, hubState, syncVars>>

\* a socket that closeWebSocket dropped while it was closing is closed and
\* its onclose handler runs
OncloseDropped(c) ==
    /\ coord[c].closing
    /\ \E code \in {1000, 1006} :
         coord' = [coord EXCEPT ![c] = onclose([@ EXCEPT !.closing = FALSE], code)]
    /\ UNCHANGED <<fetch, pull, inbox, mergeVars, hubVars, syncVars>>

\* the reconnection timer of ws.onclose fires: setupWebSocket, and a push
\* is scheduled in 1 s
ReconnectFires(c) ==
    /\ coord[c].wsReconnectTimer
    /\ coord' = [coord EXCEPT ![c] =
                    [setupWebSocket([@ EXCEPT !.wsReconnectTimer = FALSE])
                        EXCEPT !.syncLater = TRUE]]
    /\ UNCHANGED <<fetch, pull, inbox, mergeVars, hubVars, syncVars>>

\* the heartbeat interval fires: a ping is sent on an open socket
HeartbeatFires(c) ==
    /\ coord[c].heartbeatInterval
    /\ Input
    /\ UNCHANGED <<clientVars, mergeVars, hubState, syncVars>>

\* WritePump: a message is received from the queue and written, in one
\* frame, with all the messages queued behind it ("\n" between them)
WriteFrame(c) ==
    /\ running
    /\ wpc[c] = "run" /\ send[c] # <<>> /\ conn[c] = "open"
    /\ inbox' = [inbox EXCEPT ![c] = Append(@, send[c])]
    /\ send' = [send EXCEPT ![c] = <<>>]
    /\ UNCHANGED <<Clients, closed, conn, rpc, rmsg, wpc, panicked, lastReq, events,
                   coord, fetch, pull, mergeVars, syncVars>>

\* mutant: the coordinator keeps the local tasks the message does not hold
onmessageSync_KeepsLocal(s, message) ==
    LET d == [Encode(message.data) EXCEPT
                !.tasks = @ \o SelectSeq(s.data.tasks,
                                         LAMBDA t : t.id \notin Ids(message.data.tasks))]
    IN  [s EXCEPT !.data = d, !.kanbanData = Item(d)]

\* ws.onmessage, message.type === 'sync': "this.app.data = message.data"
\* and "localStorage.setItem('kanbanData', JSON.stringify(message.data))"
onmessageSync(s, message) ==
    [s EXCEPT !.data = Encode(message.data),
              !.kanbanData = Item(Encode(message.data))]

\* the index findIndex returns: the first task with the id (0 for -1)
findIndex(tasks, taskId) ==
    IF taskId \in Ids(tasks)
    THEN CHOOSE i \in DOMAIN tasks :
            /\ tasks[i].id = taskId
            /\ \A j \in 1..(i - 1) : tasks[j].id # taskId
    ELSE 0

\* mutant: every task of the board is moved to the column of the message
onmessageTaskMove_MovesAll(s, message) ==
    IF message.data.taskId # "" /\ findIndex(s.data.tasks, message.data.taskId) # 0
    THEN LET d == [s.data EXCEPT
                     !.tasks = [i \in DOMAIN @ |->
                                  [@[i] EXCEPT !.columnId = message.data.columnId]]]
         IN  [s EXCEPT !.data = d, !.kanbanData = Item(d)]
    ELSE s

\* ws.onmessage, message.type === 'taskMove', up to the push: with a
\* taskId in the message and a task of that id in this.app.data.tasks,
\* "this.app.data.tasks[taskIndex].columnId = columnId" and the board is
\* written to localStorage
onmessageTaskMove(s, message) ==
    IF message.data.taskId # "" /\ findIndex(s.data.tasks, message.data.taskId) # 0
    THEN LET i == findIndex(s.data.tasks, message.data.taskId)
             d == [s.data EXCEPT !.tasks[i].columnId = message.data.columnId]
         IN  [s EXCEPT !.data = d, !.kanbanData = Item(d)]
    ELSE s

\* ws.onmessage: JSON.parse(event.data) throws on a frame of several
\* messages and a push is made; a sync message replaces the board and the
\* stored board; a taskMove moves the task it names and a push is made; a
\* pong is logged; any other type leads to a push. counted tells whether
\* a frame that leads to a push is counted as an input
Receive(c, counted) ==
    /\ inbox[c] # <<>>
    /\ LET frame == Head(inbox[c])
           message == frame[1]
       IN  IF Len(frame) = 1 /\ message.type = "sync"
           THEN /\ coord' = [coord EXCEPT ![c] = onmessageSync(@, message)]
                /\ UNCHANGED <<syncReq, fetch, events>>
           ELSE IF Len(frame) = 1 /\ message.type = "taskMove"
           THEN /\ IF counted THEN Input ELSE UNCHANGED events
                /\ syncData(c, onmessageTaskMove(coord[c], message), FALSE)
                /\ coord' = [coord EXCEPT ![c] = onmessageTaskMove(@, message)]
           ELSE IF Len(frame) = 1 /\ message.type = "pong"
           THEN UNCHANGED <<coord, syncReq, fetch, events>>
           ELSE /\ IF counted THEN Input ELSE UNCHANGED events
                /\ syncData(c, coord[c], FALSE)
                /\ UNCHANGED coord
    /\ inbox' = [inbox EXCEPT ![c] = Tail(@)]
    /\ UNCHANGED <<store, handed, pull, mergeVars, hubState>>

\* ws.onmessage for the next frame of the connection
Onmessage(c) == Receive(c, TRUE)

\* ------------------------------------------------------------------------
\* System specification: the coordinators of the three sessions, signed in
\* and connected, the push endpoint and the broadcast path of the hub
\* ------------------------------------------------------------------------

\* a coordinator after authenticateUser, fetchUserData, startDataSync and
\* ws.onopen against a user_data table without rows
Connected ==
    [NoCoordinator EXCEPT !.kanbanData = Item(DefaultData), !.userEmail = TRUE,
                          !.authToken = TRUE, !.isAuthenticated = TRUE,
                          !.ws = "OPEN", !.heartbeatInterval = TRUE,
                          !.syncIntervalId = TRUE]

\* the sessions whose page is loaded in the system specification: one of
\* each email
Pages == {"A", "B"}

\* every page has signed in with an empty localStorage: its pushes have
\* stored the empty board for its email, its socket is registered, and all
\* responses and frames of that have been handled
InitSystem ==
    /\ MergeIdle
    /\ Clients = Pages
    /\ send = [c \in Sessions |-> <<>>]
    /\ closed = [c \in Sessions |-> FALSE]
    /\ conn = [c \in Sessions |-> IF c \in Pages THEN "open" ELSE "none"]
    /\ rpc = [c \in Sessions |-> IF c \in Pages THEN "read" ELSE "off"]
    /\ rmsg = [c \in Sessions |-> NoMsg]
    /\ wpc = [c \in Sessions |-> IF c \in Pages THEN "run" ELSE "off"]
    /\ panicked = ""
    /\ lastReq = NoReq
    /\ events = 0
    /\ store = [e \in Emails |->
                  [present |-> TRUE, data |-> KanbanData(<<>>, <<>>, <<>>, TRUE)]]
    /\ syncReq = [r \in Requests |-> NoRequest]
    /\ handed = <<>>
    /\ coord = [c \in Sessions |-> IF c \in Pages THEN Connected ELSE NoCoordinator]
    /\ fetch = [r \in Requests |-> NoFetch]
    /\ pull = [c \in Sessions |-> NoPull]
    /\ inbox = [c \in Sessions |-> <<>>]

SystemNext ==
    \/ \E c \in Pages : saveTask(c)
    \/ \E c \in Pages : saveColumn(c)
    \/ \E c \in Pages : DebounceFires(c)
    \/ \E c \in Pages : SyncIntervalFires(c)
    \/ \E r \in Requests : SyncLoad(r)
    \/ \E r \in Requests : SyncMergeSave(r)
    \/ \E r \in Requests : SyncBroadcast(r)
    \/ \E r \in Requests : SyncRespond(r)
    \/ \E r \in Requests, outcome \in {"response", "network error"} :
         SyncDataReturns(r, outcome)
    \/ \E c \in Pages : WriteFrame(c)
    \/ \E c \in Pages : Onmessage(c)

SpecSystem == InitSystem /\ [][SystemNext]_vars

\* ------------------------------------------------------------------------
\* Coordinator specification: the page of one session from its load on,
\* with the pull and push endpoints; the socket's peer is the environment
\* and the board is edited by task drops (the other edits: SpecSystem)
\* ------------------------------------------------------------------------

\* the session whose page is loaded
Page == "A"

\* the row of the page's email in user_data when the page is loaded: none,
\* or a board with one task
StoredRows ==
    { [present |-> FALSE, data |-> NoData],
      [present |-> TRUE,
       data |-> KanbanData(<<>>, <<Task("s1", "A", "", "", Nil, Nil, FALSE, FALSE)>>,
                           <<>>, TRUE)] }

\* the kanbanData item of localStorage when the page is loaded: none, the
\* stored board of the server, or a board of its own with a column and a
\* task in it
LocalItems ==
    { NoItem,
      Item(Board(<<>>, <<Task("s1", "A", "", "", Nil, Nil, FALSE, FALSE)>>, TRUE)),
      Item(Board(<<Column("k1", "A", 0, FALSE, FALSE)>>,
                 <<Task("l1", "A", "", "", Nil, "k1", FALSE, FALSE)>>, TRUE)) }

\* the constructors of KanbanApp and AuthManager: with a stored token
\* verifyToken is called, with the token of a magic link in the URL
\* authenticateUser; loadFromLocalStorage reads the stored board
PageLoad(item, boot) ==
    LET s0 == [NoCoordinator EXCEPT !.kanbanData = item,
                                    !.userEmail = (boot = "stored token"),
                                    !.verifying = (boot = "stored token")]
        s1 == IF boot = "magic link" THEN authenticateUser(s0) ELSE s0
    IN  [s1 EXCEPT !.data = IF item.present THEN item.value ELSE DefaultData]

InitCoordinator ==
    /\ HubInit
    /\ MergeIdle
    /\ syncReq = [r \in Requests |-> NoRequest]
    /\ handed = <<>>
    /\ fetch = [r \in Requests |-> NoFetch]
    /\ inbox = [c \in Sessions |-> <<>>]
    /\ \E row \in StoredRows, item \in LocalItems,
          boot \in {"stored token", "magic link"} :
         /\ store = [e \in Emails |->
                       IF e = Email[Page] THEN row
                       ELSE [present |-> FALSE, data |-> NoData]]
         /\ coord = [c \in Sessions |->
                       IF c = Page THEN PageLoad(item, boot) ELSE NoCoordinator]
         /\ pull = [c \in Sessions |->
                      IF c = Page /\ boot = "magic link"
                      THEN [NoPull EXCEPT !.pc = "sent"] ELSE NoPull]

CoordinatorNext ==
    \/ VerifyTokenReturns(Page)
    \/ GetData(Page)
    \/ \E outcome \in {"response", "network error"} :
         FetchUserDataReturns(Page, outcome)
    \/ \E r \in Requests : Unauthorized(r)
    \/ \E r \in Requests : SyncLoad(r)
    \/ \E r \in Requests : SyncMergeSave(r)
    \/ \E r \in Requests : SyncBroadcast(r)
    \/ \E r \in Requests : SyncRespond(r)
    \/ \E r \in Requests, outcome \in {"response", "network error"} :
         SyncDataReturns(r, outcome)
    \/ handleTaskDrop(Page)
    \/ SyncIntervalFires(Page)
    \/ SyncLaterFires(Page)
    \/ LogoutClick(Page)
    \/ Onopen(Page)
    \/ Onerror(Page)
    \/ ClosingHandshake(Page)
    \/ Onclose(Page)
    \/ OncloseDropped(Page)
    \/ ReconnectFires(Page)
    \/ HeartbeatFires(Page)

SpecCoordinator == InitCoordinator /\ [][CoordinatorNext]_vars

\* ------------------------------------------------------------------------
\* Properties of mergeKanbanData (checked under SpecMerge)
\* ------------------------------------------------------------------------

merged == mergeCalls # "none"

\* the normalization of the contract: "" and "unassigned" mean no column
Normalized(task) ==
    IF task.columnId \in {"", "unassigned"}
    THEN [task EXCEPT !.columnId = Nil] ELSE task

Unassigned(task) == [task EXCEPT !.columnId = Nil]

NormalizedAll(tasks) == [i \in DOMAIN tasks |-> Normalized(tasks[i])]

UnassignedAll(tasks) == [i \in DOMAIN tasks |-> Unassigned(tasks[i])]

WithId(s, id) == SelectSeq(s, LAMBDA x : x.id = id)

\* C1 (as stated): merging a snapshot with itself returns it, columns,
\* tasks, legacy unassigned list and unassignedCollapsed, up to the rewriting
\* of columnId "" and "unassigned" to absent.
C1_Idempotent ==
    (merged /\ serverData = clientData) =>
        result = KanbanData(clientData.columns,
                            NormalizedAll(clientData.tasks),
                            NormalizedAll(clientData.unassignedTasks),
                            clientData.unassignedCollapsed)

\* C1 (amended): merging a snapshot S with itself returns S's columns and
\* unassignedCollapsed, and as tasks S's tasks (normalized) followed by the
\* tasks of S's legacy list with columnId absent; the legacy list of the
\* result is empty.  So the result is S up to normalization exactly when
\* S's legacy list is empty.
C1_IdempotentUpToLegacy ==
    (merged /\ serverData = clientData) =>
        /\ result.columns = clientData.columns
        /\ result.unassignedCollapsed = clientData.unassignedCollapsed
        /\ result.tasks = NormalizedAll(clientData.tasks)
                            \o UnassignedAll(clientData.unassignedTasks)
        /\ result.unassignedTasks = <<>>
        /\ clientData.unassignedTasks = <<>> =>
                result = [clientData EXCEPT !.tasks = NormalizedAll(@)]

C1_Witness ==
    /\ merged /\ serverData = clientData
    /\ clientData.unassignedTasks = <<>>
    /\ Len(clientData.tasks) >= 2 /\ Len(clientData.columns) >= 1
    /\ \E i \in DOMAIN clientData.tasks : clientData.tasks[i].columnId = "unassigned"
    /\ result = [clientData EXCEPT !.tasks = NormalizedAll(@)]

\* C2: for an id that is a task (a column) of both snapshots, the merged
\* records of that id are exactly the client's records of that id, field by
\* field (columnId normalized; a record of the client's legacy list with
\* columnId absent), and no record comes from the server.
C2_ClientPrecedence ==
    merged =>
        /\ \A id \in AllTaskIDs(serverData) \cap AllTaskIDs(clientData) :
              WithId(result.tasks, id) =
                WithId(NormalizedAll(clientData.tasks)
                         \o UnassignedAll(clientData.unassignedTasks), id)
        /\ \A id \in Ids(serverData.columns) \cap Ids(clientData.columns) :
              WithId(result.columns, id) = WithId(clientData.columns, id)

\* t1 edited on the client (title and column differ from the server's)
C2_Witness ==
    /\ merged
    /\ \E i \in DOMAIN serverData.tasks, j \in DOMAIN clientData.tasks :
          /\ serverData.tasks[i].id = clientData.tasks[j].id
          /\ serverData.tasks[i].title # clientData.tasks[j].title
          /\ serverData.tasks[i].columnId # clientData.tasks[j].columnId
          /\ WithId(result.tasks, clientData.tasks[j].id) = <<clientData.tasks[j]>>

\* C3: a task of the server snapshot whose id occurs nowhere in the client
\* snapshot is in the merged tasks with its fields unchanged, its columnId
\* normalized (absent for a task of the server's legacy list).
C3_ServerOnlyRecovery ==
    merged =>
        /\ \A i \in DOMAIN serverData.tasks :
              serverData.tasks[i].id \notin AllTaskIDs(clientData) =>
                Normalized(serverData.tasks[i]) \in Range(result.tasks)
        /\ \A i \in DOMAIN serverData.unassignedTasks :
              serverData.unassignedTasks[i].id \notin AllTaskIDs(clientData) =>
                Unassigned(serverData.unassignedTasks[i]) \in Range(result.tasks)

\* scenario A: server task t1 in column c1, client snapshot without t1
C3_Witness ==
    /\ merged
    /\ Task("t1", "a", "", "", Nil, "c1", FALSE, FALSE) \in Range(serverData.tasks)
    /\ "t1" \notin AllTaskIDs(clientData)
    /\ clientData.tasks # <<>>
    /\ Task("t1", "a", "", "", Nil, "c1", FALSE, FALSE) \in Range(result.tasks)

\* C4: no merged task has columnId "" or "unassigned".
C4_UnassignedNormalized ==
    merged =>
        \A i \in DOMAIN result.tasks : result.tasks[i].columnId \notin {"", "unassigned"}

\* a "" and an "unassigned" went into the merge, from the client list and
\* from the server list
C4_Witness ==
    /\ merged
    /\ \E i \in DOMAIN clientData.tasks : clientData.tasks[i].columnId = "unassigned"
    /\ \E i \in DOMAIN serverData.tasks :
          /\ serverData.tasks[i].columnId \in {"", "unassigned"}
          /\ serverData.tasks[i].id \notin AllTaskIDs(clientData)
    /\ Len(result.tasks) >= 2

\* C5: a task (column) whose id is in the tasks list (columns list) of both
\* snapshots and that carries deleted=true in one of them is in the merged
\* snapshot with deleted=true.
C5_TombstonePreserved ==
    merged =>
        /\ \A id \in Ids(serverData.tasks) \cap Ids(clientData.tasks) :
              (\E t \in Range(serverData.tasks) \cup Range(clientData.tasks) :
                    t.id = id /\ t.deleted)
              => \E t \in Range(result.tasks) : t.id = id /\ t.deleted
        /\ \A id \in Ids(serverData.columns) \cap Ids(clientData.columns) :
              (\E c \in Range(serverData.columns) \cup Range(clientData.columns) :
                    c.id = id /\ c.deleted)
              => \E c \in Range(result.columns) : c.id = id /\ c.deleted

\* C6: two calls of mergeKanbanData on the same pair of snapshots return
\* the same snapshot, the order of its lists included.
C6_Deterministic ==
    mergeCalls = "twice" => result = prevResult

\* ------------------------------------------------------------------------
\* Properties of the hub (checked under SpecHub)
\* ------------------------------------------------------------------------

SyncMsg == WebSocketMessage("sync", "board", "")

\* the hub loop processes Broadcast(SyncMsg, e) in this step
ProcessesBroadcast(e) == Broadcast(SyncMsg, e)

\* C7 (as stated): processing Broadcast(msg, "") puts msg in the queue of
\* every live session; processing Broadcast(msg, e) puts it in the queue of
\* every live session whose identity is not e and leaves queue and
\* membership of the sessions of identity e unchanged.
C7_BroadcastExclusion ==
    [][\A e \in {""} \cup Emails :
         (ProcessesBroadcast(e) /\ Clients = {"A", "B", "C"}) =>
           \A c \in Clients :
             IF e # "" /\ Email[c] = e
             THEN send'[c] = send[c] /\ c \in Clients' /\ closed'[c] = closed[c]
             ELSE send'[c] = Append(send[c], [SyncMsg EXCEPT !.user = e])]_vars

\* C7 (amended): as stated, for the live sessions whose queue is not full.
C7_BroadcastExclusionRoom ==
    [][\A e \in {""} \cup Emails :
         ProcessesBroadcast(e) =>
           \A c \in Clients :
             IF e # "" /\ Email[c] = e
             THEN send'[c] = send[c] /\ c \in Clients' /\ closed'[c] = closed[c]
             ELSE Len(send[c]) < SendCap =>
                    /\ send'[c] = Append(send[c], [SyncMsg EXCEPT !.user = e])
                    /\ c \in Clients']_vars

\* scenario C: A, B, C live; Broadcast(msg, "") reached all three, then
\* Broadcast(msg, identity of A) reached B only
C7_Witness ==
    /\ Clients = {"A", "B", "C"}
    /\ lastReq.kind = "broadcast" /\ lastReq.msg = [SyncMsg EXCEPT !.user = Email["A"]]
    /\ lastReq.delivered = {"B"}
    /\ send["A"] = <<SyncMsg>> /\ send["C"] = <<SyncMsg>>
    /\ send["B"] = <<SyncMsg, [SyncMsg EXCEPT !.user = Email["A"]]>>

\* C8: when the hub processes a broadcast and the queue of a targeted
\* session is full, that queue is closed and the session leaves the live
\* set, every other targeted session gets the message, and the process
\* never panics (the hub loop stays able to serve requests).
C8_SlowConsumerDrop ==
    /\ [][\A e \in {""} \cup Emails :
            ProcessesBroadcast(e) =>
              \A c \in Clients :
                ~(e # "" /\ Email[c] = e) =>
                  IF Len(send[c]) >= SendCap
                  THEN closed'[c] /\ c \notin Clients'
                  ELSE send'[c] = Append(send[c], [SyncMsg EXCEPT !.user = e])]_vars
    /\ [](panicked = "")

\* C9: an Unregister of a session that is not in the live set changes
\* neither the live set nor any queue (and does not close a queue again).
C9_UnregisterIdempotent ==
    [][\A c \in Sessions :
         (Unregister(c) /\ c \notin Clients) =>
           /\ Clients' = Clients
           /\ send' = send
           /\ closed' = closed
           /\ panicked' = panicked]_vars

\* A was dropped for queue overflow, then its ReadPump unregistered it
C9_Witness ==
    /\ lastReq.kind = "unregister" /\ lastReq.client = "A" /\ lastReq.dropped = {}
    /\ closed["A"] /\ "A" \notin Clients /\ rpc["A"] = "done"
    /\ panicked = ""

\* ------------------------------------------------------------------------
\* Properties of SyncData (checked under SpecSync)
\* ------------------------------------------------------------------------

\* C10: pushes of one identity are serialized: a handler that has loaded
\* the identity's snapshot and not yet saved holds the snapshot that is
\* stored, so its merge is never computed against a snapshot loaded before
\* another push's save.
C10_PerIdentitySerialized ==
    \A r \in Requests :
        syncReq[r].pc = "loaded" =>
            syncReq[r].serverData = GetUserData(syncReq[r].email)

\* C11: a SyncData request whose GetUserData or SaveUserData fails ends with
\* an error status in the step of the failure, that step changes no stored
\* snapshot and hands nothing to the hub, the request has not saved before,
\* and no sync message of a failed request is ever handed to the hub.
C11_NoPartialCommit ==
    /\ [][\A r \in Requests :
            (syncReq[r].status # 500 /\ syncReq'[r].status = 500) =>
                /\ syncReq[r].pc \in {"decoded", "loaded"}
                /\ syncReq'[r].pc = "done"
                /\ store' = store
                /\ handed' = handed]_vars
    /\ [](\A r \in Requests :
            syncReq[r].status = 500 =>
                \A i \in DOMAIN handed : handed[i].request # r)

\* r1 failed in SaveUserData after merging a task into an existing board,
\* which r2 had saved and broadcast before
C11_Witness ==
    /\ syncReq["r1"].pc = "done" /\ syncReq["r1"].status = 500
    /\ syncReq["r1"].mergedData.tasks # <<>>
    /\ syncReq["r2"].status = 200 /\ syncReq["r2"].email = syncReq["r1"].email
    /\ store[syncReq["r1"].email].data = syncReq["r2"].mergedData
    /\ syncReq["r1"].mergedData # syncReq["r2"].mergedData
    /\ Len(handed) = 1

\* C13: a task id or column id of the stored board of an identity is in
\* every later stored board of that identity.
C13_NoPhysicalRemoval ==
    [][\A e \in Emails :
         store[e].present =>
           /\ store'[e].present
           /\ AllTaskIDs(store[e].data) \subseteq AllTaskIDs(store'[e].data)
           /\ Ids(store[e].data.columns) \subseteq Ids(store'[e].data.columns)]_vars

\* ------------------------------------------------------------------------
\* Properties of the hub's relay (checked under SpecHub)
\* ------------------------------------------------------------------------

\* C15: answering a ping puts exactly one pong in the queue of the session
\* the ping came in on, changes no other queue and hands nothing to the hub
\* loop.
C15_PingPrivate ==
    [][\A c \in Sessions :
         SendPong(c) =>
           /\ send'[c] = Append(send[c], WebSocketMessage("pong", "timestamp", ""))
           /\ \A d \in Sessions \ {c} : send'[d] = send[d]
           /\ lastReq' = lastReq]_vars

\* C16: when the hub processes the message a session forwards, it offers
\* the message to every live session other than that session (the message
\* is queued, or the session is dropped for its full queue), the other
\* sessions of the sender's email included.
C16_RelayToOthers ==
    [][\A c \in Sessions :
         Forward(c) =>
           \A d \in Clients \ {c} :
             d \in lastReq'.delivered \cup lastReq'.dropped]_vars

\* ------------------------------------------------------------------------
\* Properties of the system (checked under SpecSystem)
\* ------------------------------------------------------------------------

\* C12: the stored board of an email holds no task and no column that was
\* created in a session of another email (the title of a record names the
\* session it was created in).
C12_BoardIsolation ==
    \A e \in Emails :
        \A x \in Range(store[e].data.tasks) \cup Range(store[e].data.columns) :
            Email[x.title] = e

\* no push is in flight or scheduled, and every queue and connection is
\* drained
Quiescent ==
    /\ \A r \in Requests : syncReq[r].pc = "idle" /\ fetch[r].client = ""
    /\ \A c \in Sessions :
          send[c] = <<>> /\ inbox[c] = <<>> /\ coord[c].syncTimeout = 0

\* C14: when only the sessions of one email have pushed and the system is
\* quiescent, every live session of that email whose board is a merged
\* board of one of the pushes (it holds no edit that was not pushed) has the
\* stored board of the email.
C14_Convergence ==
    \A e \in Emails :
        (/\ Quiescent
         /\ \A i \in DOMAIN handed : handed[i].email = e)
        => \A c \in Clients :
              (/\ Email[c] = e
               /\ \E i \in DOMAIN handed : coord[c].data = Encode(handed[i].msg.data))
              => Decode(coord[c].data) = store[e].data

C18_NoReconnectAfterLogout ==
    \A c \in Sessions :
        ~coord[c].isAuthenticated =>
            /\ coord[c].ws = "null"
            /\ ~coord[c].wsReconnectTimer
            /\ ~coord[c].heartbeatInterval

\* C18 happens: the coordinator has logged out while its socket was in the
\* closing handshake, and the close event of that socket is still to come
C18_Witness ==
    /\ ~coord[Page].isAuthenticated
    /\ ~coord[Page].verifying
    /\ ~coord[Page].authToken
    /\ coord[Page].closing

\* C19: the step in which a pull or a push fails, by a network error or
\* with a status that is neither 200 nor 401, leaves the board in memory
\* and the kanbanData item of localStorage as they were
C19_OfflineFirst ==
    [][/\ \A c \in Sessions :
            (\/ FetchUserDataReturns(c, "network error")
             \/ /\ FetchUserDataReturns(c, "response")
                /\ pull[c].status \notin {200, 401}) =>
                /\ coord'[c].data = coord[c].data
                /\ coord'[c].kanbanData = coord[c].kanbanData
       /\ \A r \in Requests :
            (\/ SyncDataReturns(r, "network error")
             \/ /\ SyncDataReturns(r, "response")
                /\ syncReq[r].status \notin {200, 401}) =>
                /\ coord'[fetch[r].client].data = coord[fetch[r].client].data
                /\ coord'[fetch[r].client].kanbanData =
                       coord[fetch[r].client].kanbanData]_vars

\* C19 happens: the pull and the first push of a page with a board of its
\* own have both failed (a successful one would have brought the task of
\* the stored board), and the board and the stored item are still its own
C19_Witness ==
    /\ coord[Page].isAuthenticated
    /\ coord[Page].syncIntervalId
    /\ coord[Page].ws = "CONNECTING"
    /\ pull[Page].pc = "none"
    /\ \A r \in Requests : FreeSlot(r)
    /\ store[Email[Page]].present
    /\ "s1" \in Ids(store[Email[Page]].data.tasks)
    /\ Ids(coord[Page].data.tasks) = {"l1"}
    /\ coord[Page].kanbanData = Item(coord[Page].data)

\* C20: when the pull is answered with the stored board, the coordinator
\* adopts it if localStorage has no board or the same board; if
\* localStorage has a different board, the board in memory is kept and
\* pushed
C20_InitialPullRule ==
    [][\A c \in Sessions :
          (FetchUserDataReturns(c, "response") /\ pull[c].status = 200) =>
              IF \/ ~coord[c].kanbanData.present
                 \/ coord[c].kanbanData.value = pull[c].data
              THEN coord'[c].data = pull[c].data
              ELSE /\ coord'[c].data = coord[c].data
                   /\ \E r \in Requests :
                        /\ fetch'[r].client = c
                        /\ syncReq'[r].pc = "decoded"
                        /\ syncReq'[r].clientData = Decode(coord[c].data)]_vars

\* the Disconnected state of a coordinator: not authenticated, no token and
\* no email, no socket, no interval of the periodic push, the default board
\* in memory and nothing in localStorage
Disconnected(s) ==
    /\ ~s.isAuthenticated
    /\ ~s.authToken
    /\ ~s.userEmail
    /\ s.ws = "null"
    /\ ~s.syncIntervalId
    /\ s.data = DefaultData
    /\ s.kanbanData = NoItem

\* C21: the step in which the coordinator handles a 401 answer to its pull
\* or to a push, or the failure of the token verification, ends in the
\* Disconnected state
C21_AuthFailureDisconnects ==
    [][/\ \A c \in Sessions :
            (\/ /\ FetchUserDataReturns(c, "response")
                /\ pull[c].status = 401
             \/ /\ VerifyTokenReturns(c)
                /\ ~coord'[c].isAuthenticated) =>
                Disconnected(coord'[c])
       /\ \A r \in Requests :
            (SyncDataReturns(r, "response") /\ syncReq[r].status = 401) =>
                Disconnected(coord'[fetch[r].client])]_vars

\* ------------------------------------------------------------------------
\* C23 (checked under SpecMerge)
\* ------------------------------------------------------------------------

\* the columns the merge appended behind the client's columns
AppendedColumns ==
    SubSeq(result.columns, Len(clientData.columns) + 1, Len(result.columns))

\* C23 (as stated): the merged columns are the client's columns, in the
\* client's order, followed by the columns of the server snapshot whose id
\* does not occur in the client snapshot: none of them is omitted and no
\* other column is added
C23_ColumnShape ==
    merged =>
        /\ Len(result.columns) >= Len(clientData.columns)
        /\ SubSeq(result.columns, 1, Len(clientData.columns)) = clientData.columns
        /\ Range(AppendedColumns) =
              { x \in Range(serverData.columns) : x.id \notin Ids(clientData.columns) }

\* C23 (amended): the merged columns are the client's columns, in the
\* client's order, followed by exactly one column for each id that occurs
\* among the server's columns and not among the client's: the last column
\* of the server's list with that id
C23_ColumnShapeById ==
    merged =>
        /\ Len(result.columns) >= Len(clientData.columns)
        /\ SubSeq(result.columns, 1, Len(clientData.columns)) = clientData.columns
        /\ Ids(AppendedColumns) = Ids(serverData.columns) \ Ids(clientData.columns)
        /\ Len(AppendedColumns) = Cardinality(Ids(AppendedColumns))
        /\ \A i \in DOMAIN AppendedColumns :
              \E j \in DOMAIN serverData.columns :
                 /\ AppendedColumns[i] = serverData.columns[j]
                 /\ \A k \in DOMAIN serverData.columns :
                      serverData.columns[k].id = AppendedColumns[i].id => k <= j

\* the client holds c1, the server an edited c1 and a column c2 of its own:
\* the merged columns are the client's c1 and the server's c2
C23_Witness ==
    /\ merged
    /\ Ids(clientData.columns) = {"c1"}
    /\ Ids(serverData.columns) = {"c1", "c2"}
    /\ \E i \in DOMAIN serverData.columns :
          /\ serverData.columns[i].id = "c1"
          /\ serverData.columns[i] \notin Range(clientData.columns)
    /\ Len(result.columns) = 2
    /\ result.columns[1] = clientData.columns[1]
    /\ result.columns[2] \in Range(serverData.columns)
    /\ result.columns[2].id = "c2"

\* ------------------------------------------------------------------------
\* C22 (checked under SpecHub)
\* ------------------------------------------------------------------------

\* a pump of the session has left its loop
PumpFailed(c) == wpc[c] = "done" \/ rpc[c] \in {"unregister", "done"}

\* the session is out of the live set, its connection is closed and both
\* pumps have returned
TornDown(c) ==
    /\ c \notin Clients
    /\ conn[c] = "closed"
    /\ wpc[c] = "done"
    /\ rpc[c] = "done"

\* the steps the pumps of the session and the hub loop take for it without
\* anything new from outside: a read or a ping write on a connection that
\* is closed fails, a pong or a message is handed over, the session is
\* unregistered, the queue is drained
TeardownStep(c) ==
    \/ conn[c] # "open" /\ ReadError(c)
    \/ conn[c] # "open" /\ PingFailed(c)
    \/ SendPong(c)
    \/ Forward(c)
    \/ Unregister(c)
    \/ WriteMessages(c)
    \/ WriteClose(c)

\* C22: once a pump of a session has failed, the teardown of the session
\* is complete or a step towards it can be taken: no pump is left waiting
\* on the outbound queue or on the hub with nothing to wake it
C22_JointTeardown ==
    \A c \in Sessions :
        (running /\ PumpFailed(c) /\ ~TornDown(c)) => ENABLED TeardownStep(c)

\* ------------------------------------------------------------------------
\* C24 (checked under SpecHandshake)
\* ------------------------------------------------------------------------

\* C24: the live set changes (the hub loop registers, unregisters or drops
\* a session) only while no task outside the loop is reading it
C24_SingleOwner ==
    [][Clients' # Clients => Ranging \ (Clients' \ Clients) = {}]_vars

\* ------------------------------------------------------------------------
\* C25 (checked under SpecHubLoop)
\* ------------------------------------------------------------------------

\* the read pump of the session is in a send to a channel of the hub:
\* "c.Hub.broadcast <- jsonMessage" or "h.unregister <- client"
CallsHub(c) == rpc[c] \in {"forward", "unregister"}

\* C25: the hub loop, while it serves a request, can always finish it (it
\* waits on no session), and no caller is in its send to the hub while the
\* loop is busy with another request
C25_NonBlockingHub ==
    /\ (running /\ ~HubAtSelect) => ENABLED BroadcastServe
    /\ \A c \in Sessions : (running /\ CallsHub(c)) => HubAtSelect

\* ------------------------------------------------------------------------
\* C26 (checked under SpecSystem)
\* ------------------------------------------------------------------------

\* the handler of the request leaves the position pc in this step
Leaves(r, pc) == syncReq[r].pc = pc /\ syncReq'[r].pc # pc

\* C26: a push is answered with success only after its save and its one
\* hand-over to the hub, in this order; what is saved, handed over and
\* served by the hub loop is the merged board of the request, in a message
\* of type sync with an empty exclusion, and the loop offers it to every
\* live session (it is queued or the session, its queue full, is dropped)
C26_FullSyncBroadcast ==
    [][/\ \A r \in Requests :
            /\ (syncReq'[r].pc = "saved" /\ syncReq[r].pc # "saved") =>
                  /\ syncReq[r].pc = "loaded"
                  /\ store'[syncReq[r].email] =
                        [present |-> TRUE, data |-> syncReq'[r].mergedData]
                  /\ handed' = handed
            /\ Leaves(r, "saved") =>
                  /\ syncReq'[r].pc = "broadcast"
                  /\ handed' = Append(handed,
                        [msg |-> WebSocketMessage("sync", syncReq[r].mergedData, ""),
                         excludeEmail |-> "", request |-> r,
                         email |-> syncReq[r].email])
                  /\ lastReq'.kind = "broadcast"
                  /\ lastReq'.msg = WebSocketMessage("sync", syncReq[r].mergedData, "")
                  /\ lastReq'.delivered \cup lastReq'.dropped = Clients
                  /\ \A c \in lastReq'.delivered :
                        send'[c] = Append(send[c], lastReq'.msg)
            /\ (syncReq'[r].pc = "broadcast" /\ syncReq[r].pc # "broadcast") =>
                  Leaves(r, "saved")
            /\ (syncReq'[r].status = 200 /\ syncReq[r].status # 200) =>
                  /\ Leaves(r, "broadcast")
                  /\ handed' = handed
       /\ handed' # handed => \E r \in Requests : Leaves(r, "saved")]_vars

\* the push of a task by page A has been saved and handed over, and the
\* message is in the queues of A, of the pushing identity, and of B
C26_Witness ==
    /\ \E r \in Requests :
          /\ syncReq[r].pc = "broadcast"
          /\ syncReq[r].email = Email["A"]
          /\ syncReq[r].mergedData.tasks # <<>>
          /\ lastReq.msg = WebSocketMessage("sync", syncReq[r].mergedData, "")
          /\ store[Email["A"]].data = syncReq[r].mergedData
    /\ lastReq.delivered = {"A", "B"}
    /\ send["A"] # <<>> /\ send["A"][Len(send["A"])] = lastReq.msg
    /\ send["B"] # <<>> /\ send["B"][Len(send["B"])] = lastReq.msg

\* ------------------------------------------------------------------------
\* C27 (checked under SpecSystem)
\* ------------------------------------------------------------------------

\* the requests issued in this step by the coordinator of c
Issued(c) ==
    { r \in Requests : fetch[r].client = "" /\ fetch'[r].client = c }

MoveTasks ==
    { Task(id, "A", "", "", Nil, columnId, FALSE, FALSE) :
        id \in TaskIds, columnId \in {Nil, "c1"} }

\* the boards of the page: column c1 and up to two tasks of distinct ids
\* (generateId)
MoveBoards ==
    { Board(<<Column("c1", "A", 0, FALSE, FALSE)>>, tasks, collapsed) :
        tasks \in { t \in UNION { SeqsOfLen(MoveTasks, k) : k \in 0..2 } :
                      \A i, j \in DOMAIN t : t[i].id = t[j].id => i = j },
        collapsed \in BOOLEAN }

\* message.data of a taskMove (handleTaskDrop): the task's id and the id
\* of its column, null for unassigned
MoveData(taskId, columnId) == [taskId |-> taskId, columnId |-> columnId]

\* the taskMove messages: of a task of the board or of none, without a
\* taskId, to a column or to unassigned
MoveMessages ==
    { WebSocketMessage("taskMove", MoveData(taskId, columnId), "alice") :
        taskId \in TaskIds \cup {""}, columnId \in {Nil, "c1", "c2"} }

InitMove ==
    /\ MergeIdle
    /\ Clients = Pages
    /\ send = [c \in Sessions |-> <<>>]
    /\ closed = [c \in Sessions |-> FALSE]
    /\ conn = [c \in Sessions |-> IF c \in Pages THEN "open" ELSE "none"]
    /\ rpc = [c \in Sessions |-> IF c \in Pages THEN "read" ELSE "off"]
    /\ rmsg = [c \in Sessions |-> NoMsg]
    /\ wpc = [c \in Sessions |-> IF c \in Pages THEN "run" ELSE "off"]
    /\ panicked = ""
    /\ lastReq = NoReq
    /\ events = 0
    /\ syncReq = [r \in Requests |-> NoRequest]
    /\ handed = <<>>
    /\ fetch = [r \in Requests |-> NoFetch]
    /\ pull = [c \in Sessions |-> NoPull]
    /\ \E b \in MoveBoards, m \in MoveMessages :
         /\ store = [e \in Emails |->
                       [present |-> TRUE,
                        data |-> IF e = Email[Page] THEN Decode(b)
                                 ELSE KanbanData(<<>>, <<>>, <<>>, TRUE)]]
         /\ coord = [c \in Sessions |->
                       IF c = Page
                       THEN [Connected EXCEPT !.data = b, !.kanbanData = Item(b)]
                       ELSE IF c \in Pages THEN Connected ELSE NoCoordinator]
         /\ inbox = [c \in Sessions |-> IF c = Page THEN << <<m>> >> ELSE <<>>]

MoveNext ==
    \/ \E c \in Pages : Onmessage(c)
    \/ \E r \in Requests : SyncLoad(r)
    \/ \E r \in Requests : SyncMergeSave(r)
    \/ \E r \in Requests : SyncBroadcast(r)
    \/ \E r \in Requests : SyncRespond(r)
    \/ \E r \in Requests : SyncDataReturns(r, "response")
    \/ \E c \in Pages : WriteFrame(c)

SpecMove == InitMove /\ [][MoveNext]_vars

\* ws.onmessage of c handles the frame of one taskMove message
HandlesTaskMove(c) ==
    /\ inbox[c] # <<>>
    /\ Len(Head(inbox[c])) = 1
    /\ Head(inbox[c])[1].type = "taskMove"
    /\ inbox'[c] = Tail(inbox[c])

\* C28: on a taskMove message the coordinator sets the columnId of the
\* local task with the message's taskId to the message's columnId (null:
\* unassigned), changes no other task, no column and not the collapsed
\* flag, leaves the board and the stored board as they are when no local
\* task has that id, and in every case issues exactly one push, of the
\* board as it is after the move
C28_MoveDelta ==
    [][\A c \in Sessions :
         HandlesTaskMove(c) =>
           LET m == Head(inbox[c])[1].data
               old == coord[c].data
               new == coord'[c].data
           IN  /\ new.columns = old.columns
               /\ new.unassignedCollapsed = old.unassignedCollapsed
               /\ Len(new.tasks) = Len(old.tasks)
               /\ \A i \in DOMAIN old.tasks :
                    new.tasks[i] = IF old.tasks[i].id = m.taskId
                                   THEN [old.tasks[i] EXCEPT !.columnId = m.columnId]
                                   ELSE old.tasks[i]
               /\ m.taskId \notin Ids(old.tasks) => coord'[c] = coord[c]
               /\ Cardinality(Issued(c)) = 1
               /\ \A r \in Issued(c) :
                    /\ syncReq'[r].pc = "decoded"
                    /\ syncReq'[r].clientData = Decode(new)]_vars

\* the page has handled the taskMove of t1 to unassigned: t1, in column c1
\* in the row of the email, is unassigned on the board and in localStorage,
\* t2 is in column c1 as before, and the push of the board is in flight
C28_Witness ==
    /\ inbox[Page] = <<>>
    /\ events = 1
    /\ Len(store[Email[Page]].data.tasks) = 2
    /\ \A i \in DOMAIN store[Email[Page]].data.tasks :
         store[Email[Page]].data.tasks[i].columnId = "c1"
    /\ Len(coord[Page].data.tasks) = 2
    /\ \A i \in DOMAIN coord[Page].data.tasks :
         /\ coord[Page].data.tasks[i].id = store[Email[Page]].data.tasks[i].id
         /\ coord[Page].data.tasks[i].columnId =
              IF coord[Page].data.tasks[i].id = "t1" THEN Nil ELSE "c1"
    /\ coord[Page].kanbanData = Item(coord[Page].data)
    /\ \E r \in Requests :
         /\ fetch[r].client = Page
         /\ syncReq[r].pc = "decoded"
         /\ syncReq[r].clientData = Decode(coord[Page].data)

\* ------------------------------------------------------------------------
\* Drain specification: the hub and the pumps of the sessions, with the
\* frames WritePump writes to each connection kept in the order written
\* (inbox); the writes of messages succeed while the connection is open
\* ------------------------------------------------------------------------

\* the sessions that connect in the drain specification
Drained == {"A", "B"}

\* c.Conn.WriteMessage(websocket.CloseMessage, []byte{}): the close frame
CloseMessage == <<>>

\* mutant: the close frame is written as soon as the queue is closed
WriteCloseFrame_Undrained(c) ==
    /\ running
    /\ wpc[c] = "run" /\ closed[c] /\ conn[c] = "open"
    /\ inbox' = [inbox EXCEPT ![c] = Append(@, CloseMessage)]
    /\ wpc' = [wpc EXCEPT ![c] = "done"]
    /\ conn' = [conn EXCEPT ![c] = "closed"]
    /\ UNCHANGED <<Clients, send, closed, rpc, rmsg, panicked, lastReq, events,
                   coord, fetch, pull, mergeVars, syncVars>>

\* WritePump: "message, ok := <-c.Send" with !ok, which a closed channel
\* yields once its buffer is empty; the close frame is written and the
\* pump returns, closing the connection
WriteCloseFrame(c) ==
    /\ running
    /\ wpc[c] = "run" /\ send[c] = <<>> /\ closed[c] /\ conn[c] = "open"
    /\ inbox' = [inbox EXCEPT ![c] = Append(@, CloseMessage)]
    /\ wpc' = [wpc EXCEPT ![c] = "done"]
    /\ conn' = [conn EXCEPT ![c] = "closed"]
    /\ UNCHANGED <<Clients, send, closed, rpc, rmsg, panicked, lastReq, events,
                   coord, fetch, pull, mergeVars, syncVars>>

DrainNext ==
    \/ \E c \in Drained : HandleWebSocket(c)
    \/ \E e \in {""} \cup Emails :
         Broadcast(WebSocketMessage("sync", "board", ""), e)
    \/ \E c \in Drained : ReadMessage(c)
    \/ \E c \in Drained : ReadError(c)
    \/ \E c \in Drained : SendPong(c)
    \/ \E c \in Drained : Forward(c)
    \/ \E c \in Drained : Unregister(c)
    \/ \E c \in Drained : WriteFrame(c)
    \/ \E c \in Drained : WriteCloseFrame(c)
    \/ \E c \in Drained : PingFailed(c)

SpecDrain == InitHub /\ [][DrainNext]_vars

\* WritePump of c writes the close frame
WritesClose(c) == inbox'[c] = Append(inbox[c], CloseMessage)

\* C29: once the hub has closed a session's queue and while its WritePump
\* runs (no write has failed), the messages of the queue leave it only by
\* being written, all of them in one frame in queue order, nothing is
\* added to the queue, and the close frame is written only when the queue
\* is empty and is the last frame the pump writes
C29_DrainBeforeClose ==
    /\ [](\A c \in Sessions :
            CloseMessage \in Range(inbox[c]) =>
              /\ inbox[c][Len(inbox[c])] = CloseMessage
              /\ \A i \in 1..(Len(inbox[c]) - 1) : inbox[c][i] # CloseMessage
              /\ send[c] = <<>> /\ closed[c] /\ wpc[c] = "done")
    /\ [][\A c \in Sessions :
            /\ (closed[c] /\ wpc[c] = "run" /\ send'[c] # send[c]) =>
                 /\ send'[c] = <<>>
                 /\ inbox'[c] = Append(inbox[c], send[c])
                 /\ wpc'[c] = "run"
            /\ WritesClose(c) => closed[c] /\ send[c] = <<>>]_vars

\* the queue of A was full when a broadcast overflowed it and the hub
\* closed it; WritePump has written its two messages, the pong before the
\* board as they were queued, and then the close frame
C29_Witness ==
    /\ lastReq.kind = "broadcast" /\ "A" \in lastReq.dropped
    /\ closed["A"] /\ wpc["A"] = "done"
    /\ Len(inbox["A"]) = 2
    /\ Len(inbox["A"][1]) = SendCap
    /\ inbox["A"][1][1].type = "pong"
    /\ inbox["A"][1][SendCap].type = "sync"
    /\ inbox["A"][2] = CloseMessage

\* ------------------------------------------------------------------------
\* Order specification: the hub and the pumps of two sessions of different
\* emails; the payload of every inbound frame and of every broadcast is the
\* number of the stimulus that brought it, which tells the messages apart
\* and the order in which they came
\* ------------------------------------------------------------------------

\* the sessions that connect in the order specification
Senders == {"A", "B"}

OrderNext ==
    \/ \E c \in Senders : HandleWebSocket(c)
    \/ \E e \in {""} \cup Emails :
         Broadcast(WebSocketMessage("sync", events + 1, ""), e)
    \/ \E c \in Senders : ReadFrame(c, events + 1)
    \/ \E c \in Senders : ReadError(c)
    \/ \E c \in Senders : SendPong(c)
    \/ \E c \in Senders : Forward(c)
    \/ \E c \in Senders : Unregister(c)
    \/ \E c \in Senders : WriteMessages(c)
    \/ \E c \in Senders : WriteClose(c)
    \/ \E c \in Senders : PingFailed(c)

SpecOrder == InitHub /\ [][OrderNext]_vars

\* m is a message the ReadPump of session s handed to the hub
ForwardedBy(m, s) == m.type = "taskMove" /\ m.user = Email[s]

\* m is a message handed to the hub by Hub.Broadcast
Broadcasted(m) == m.type = "sync"

\* C30: the messages of one session are handed to the hub in the order the
\* session sent them (a message its ReadPump still holds was sent after
\* all of its messages in the queues), every queue holds the messages of
\* one session in the order sent, and every queue holds the broadcasts of
\* Hub.Broadcast in the order the hub processed them
C30_PerSessionOrder ==
    \A c \in Sessions :
      /\ \A s \in Senders :
           /\ \A i, j \in DOMAIN send[c] :
                (i < j /\ ForwardedBy(send[c][i], s) /\ ForwardedBy(send[c][j], s))
                  => send[c][i].data < send[c][j].data
           /\ rpc[s] = "forward" =>
                \A i \in DOMAIN send[c] :
                  ForwardedBy(send[c][i], s) => send[c][i].data < rmsg[s].data
      /\ \A i, j \in DOMAIN send[c] :
           (i < j /\ Broadcasted(send[c][i]) /\ Broadcasted(send[c][j]))
             => send[c][i].data < send[c][j].data

\* the queue of B holds two messages of A, the one sent first at its head,
\* and the queue of A two broadcasts, the one processed first at its head
C30_Witness ==
    /\ Len(send["B"]) = 2
    /\ ForwardedBy(send["B"][1], "A") /\ ForwardedBy(send["B"][2], "A")
    /\ send["B"][1].data < send["B"][2].data
    /\ Len(send["A"]) = 2
    /\ Broadcasted(send["A"][1]) /\ Broadcasted(send["A"][2])
    /\ send["A"][1].data < send["A"][2].data

\* ------------------------------------------------------------------------
\* Read specification: the hub and the pumps, from the state in which
\* session A is registered and its ReadPump has queued two pongs that its
\* WritePump has not written yet
\* ------------------------------------------------------------------------

\* the pong ReadPump queues for a ping
Pong == WebSocketMessage("pong", "timestamp", "")

InitRead ==
    /\ MergeIdle /\ SyncInit /\ ClientIdle
    /\ Clients = {"A"}
    /\ send = [c \in Sessions |-> IF c = "A" THEN <<Pong, Pong>> ELSE <<>>]
    /\ closed = [c \in Sessions |-> FALSE]
    /\ conn = [c \in Sessions |-> IF c = "A" THEN "open" ELSE "none"]
    /\ rpc = [c \in Sessions |-> IF c = "A" THEN "read" ELSE "off"]
    /\ rmsg = [c \in Sessions |-> NoMsg]
    /\ wpc = [c \in Sessions |-> IF c = "A" THEN "run" ELSE "off"]
    /\ panicked = ""
    /\ lastReq = [NoReq EXCEPT !.kind = "register", !.client = "A"]
    /\ events = 0


ReadNext ==
    \/ \E c \in Pages : HandleWebSocket(c)
    \/ \E e \in {""} \cup Emails :
         Broadcast(WebSocketMessage("sync", "board", ""), e)
    \/ \E c \in Pages : ReadMessage(c)
    \/ \E c \in Pages : ReadError(c)
    \/ \E c \in Pages : SendPong(c)
    \/ \E c \in Pages : Forward(c)
    \/ \E c \in Pages : Unregister(c)
    \/ \E c \in Pages : WriteMessages(c)
    \/ \E c \in Pages : WriteClose(c)
    \/ \E c \in Pages : PingFailed(c)

SpecRead == InitRead /\ [][ReadNext]_vars

\* C31: a step in which the ReadPump of a session reads a payload that
\* cannot be decoded leaves the hub, the live set, every queue and every
\* pump as they are (nothing is handed to the hub, the session stays live
\* with its queue unchanged) and the ReadPump is at its read again
C31_MalformedNotFatal ==
    [][\A c \in Sessions, frame \in Frames :
         (frame.malformed /\ ReadOne(c, frame, "move")) =>
            /\ UNCHANGED <<hubState, syncVars>>
            /\ rpc'[c] = "read" /\ conn'[c] = "open"]_vars

\* one stimulus has come since A registered and nothing else has happened:
\* no request was served by the hub, no other session connected, the two
\* pongs are still queued, which only a payload that was dropped explains
\* (a ping adds a pong, a move is held for the hub, a failure ends a pump)
C31_Witness ==
    /\ events = 1
    /\ lastReq = [NoReq EXCEPT !.kind = "register", !.client = "A"]
    /\ Clients = {"A"}
    /\ send["A"] = <<Pong, Pong>>
    /\ rpc["A"] = "read" /\ wpc["A"] = "run" /\ conn["A"] = "open"
    /\ rmsg["A"] = NoMsg
    /\ \A c \in Sessions \ {"A"} : conn[c] = "none"

DistinctIds(s) == \A i, j \in DOMAIN s : s[i].id = s[j].id => i = j

\* C33: when no id is repeated inside the columns list, the tasks list or
\* the legacy unassigned list of either input, each list taken by itself,
\* the merged snapshot holds every task id and every column id at most once
C33_UniqueIds ==
    (/\ merged
     /\ DistinctIds(serverData.columns) /\ DistinctIds(clientData.columns)
     /\ DistinctIds(serverData.tasks) /\ DistinctIds(clientData.tasks)
     /\ DistinctIds(serverData.unassignedTasks)
     /\ DistinctIds(clientData.unassignedTasks))
    => DistinctIds(result.tasks) /\ DistinctIds(result.columns)

\* C34: the queue of a registered session is open exactly when the session
\* is in the live set, a closed queue stays closed, and no queue is closed
\* a second time (the close of a closed channel is a panic)
C34_ClosedOnce ==
    /\ [](\A c \in Sessions : rpc[c] # "off" => (~closed[c] <=> c \in Clients))
    /\ [](panicked # "close of closed channel")
    /\ [][\A c \in Sessions : closed[c] => closed'[c]]_vars

\* the queue of A was closed by the hub when a broadcast overflowed it (its
\* ReadPump has not asked to unregister), the queue of B when its ReadPump
\* unregistered: both are out of the live set, each queue closed once
C34_Witness ==
    /\ panicked = ""
    /\ closed["A"] /\ "A" \notin Clients /\ rpc["A"] = "read"
    /\ Len(send["A"]) = SendCap
    /\ closed["B"] /\ "B" \notin Clients /\ rpc["B"] = "done"
    /\ lastReq.kind = "unregister" /\ lastReq.client = "B" /\ lastReq.dropped = {"B"}

\* C35: the ReadPump of a session is never about to place a pong in a
\* queue the hub has closed, and no send on a closed queue happens (such a
\* send is a panic)
C35_NoSendOnClosed ==
    /\ \A c \in Sessions : ~(rpc[c] = "pong" /\ closed[c])
    /\ panicked # "send on closed channel"

\* C36: the message a ReadPump holds for the hub carries the email of its
\* session in the user field, whatever user the frame named, and when the
\* hub processes it, it is that message the hub relays and the sessions it
\* skips are those of the session's email
C36_SenderStamping ==
    /\ [](\A c \in Sessions : rpc[c] = "forward" => rmsg[c].user = Email[c])
    /\ [][\A c \in Sessions :
            (rpc[c] = "forward" /\ rpc'[c] = "read") =>
               /\ lastReq'.kind = "broadcast"
               /\ lastReq'.msg = rmsg[c]
               /\ lastReq'.delivered \cup lastReq'.dropped =
                    { d \in Clients : Email[d] # Email[c] }]_vars

\* A, B and C are live and the hub has relayed a taskMove that came in on
\* a session of alice: it carries alice and was queued for B alone
C36_Witness ==
    /\ Clients = {"A", "B", "C"}
    /\ lastReq.kind = "broadcast"
    /\ lastReq.msg.type = "taskMove" /\ lastReq.msg.user = "alice"
    /\ lastReq.delivered = {"B"} /\ lastReq.dropped = {}
    /\ send["B"] = <<lastReq.msg>>
    /\ send["A"] = <<>> /\ send["C"] = <<>>
    /\ rpc["A"] = "read" /\ rpc["C"] = "read"

\* C37: every frame written to a session's connection holds one message,
\* so that the coordinator decodes each queued message by itself and
\* handles it by its own type
C37_MessageBoundaries ==
    \A c \in Sessions :
      \A i \in DOMAIN inbox[c] : Len(inbox[c][i]) = 1

\* the coordinator is logged out and holds no board: the state logout leaves
Emptied(s) == ~s.isAuthenticated /\ s.data = DefaultData /\ s.kanbanData = NoItem

\* C38: while a coordinator that logout has emptied is not authenticated
\* again, its board and its stored board stay empty; no response of a pull
\* or a push that arrives fills them
C38_LogoutFinal ==
    [][\A c \in Sessions :
         (Emptied(coord[c]) /\ ~coord'[c].isAuthenticated) =>
            /\ coord'[c].data = DefaultData
            /\ coord'[c].kanbanData = NoItem]_vars

\* ------------------------------------------------------------------------
\* Quiescence specification: pages A and B are connected, A has just
\* dropped its task into column c1 (handleTaskDrop: the board is stored,
\* the push is in flight, the debounce timer armed); no edit follows and
\* the 60 s interval is left aside. Every step that can be taken is taken
\* in the end: handlers, the hub, the pumps and the browser all run
\* ------------------------------------------------------------------------

\* BoardBefore is the board of A before the drop, which is the row of its
\* email, BoardAfter its board after the drop
InitQuiesce ==
  LET BoardBefore ==
          Board(<<Column("c1", "A", 0, FALSE, FALSE)>>,
                <<Task("t1", "A", "", "", Nil, Nil, FALSE, FALSE)>>, FALSE)
      BoardAfter == [BoardBefore EXCEPT !.tasks[1].columnId = "c1"]
  IN
    /\ MergeIdle
    /\ Clients = Pages
    /\ send = [c \in Sessions |-> <<>>]
    /\ closed = [c \in Sessions |-> FALSE]
    /\ conn = [c \in Sessions |-> IF c \in Pages THEN "open" ELSE "none"]
    /\ rpc = [c \in Sessions |-> IF c \in Pages THEN "read" ELSE "off"]
    /\ rmsg = [c \in Sessions |-> NoMsg]
    /\ wpc = [c \in Sessions |-> IF c \in Pages THEN "run" ELSE "off"]
    /\ panicked = ""
    /\ lastReq = NoReq
    /\ events = 0
    /\ store = [e \in Emails |->
                  [present |-> TRUE,
                   data |-> IF e = Email["A"] THEN Decode(BoardBefore)
                            ELSE KanbanData(<<>>, <<>>, <<>>, TRUE)]]
    /\ handed = <<>>
    /\ coord = [c \in Sessions |->
                  IF c = "A"
                  THEN [Connected EXCEPT !.data = BoardAfter,
                                         !.kanbanData = Item(BoardAfter),
                                         !.syncTimeout = 1]
                  ELSE IF c \in Pages THEN Connected ELSE NoCoordinator]
    /\ syncReq = [r \in Requests |->
                    IF r = "r1"
                    THEN [NoRequest EXCEPT !.pc = "decoded", !.email = Email["A"],
                                           !.clientData = Decode(BoardAfter)]
                    ELSE NoRequest]
    /\ fetch = [r \in Requests |->
                  IF r = "r1" THEN [client |-> "A", then |-> FALSE] ELSE NoFetch]
    /\ pull = [c \in Sessions |-> NoPull]
    /\ inbox = [c \in Sessions |-> <<>>]

\* WritePump writes its next frame once the page has handled the one before
WriteFrameInTurn(c) == inbox[c] = <<>> /\ WriteFrame(c)

QuiesceNext ==
    \/ \E c \in Pages : DebounceFires(c)
    \/ \E r \in Requests : SyncLoad(r)
    \/ \E r \in Requests : SyncMergeSave(r)
    \/ \E r \in Requests : BroadcastSync(r, FALSE)
    \/ \E r \in Requests : SyncRespond(r)
    \/ \E r \in Requests : SyncDataReturns(r, "response")
    \/ \E c \in Pages : WriteFrameInTurn(c)
    \/ \E c \in Pages : Receive(c, FALSE)

\* every timer fires, every handler, pump and event handler runs
QuiesceFairness ==
    /\ \A c \in Pages : WF_vars(DebounceFires(c))
    /\ \A r \in Requests : WF_vars(SyncLoad(r))
    /\ \A r \in Requests : WF_vars(SyncMergeSave(r))
    /\ \A r \in Requests : WF_vars(BroadcastSync(r, FALSE))
    /\ \A r \in Requests : WF_vars(SyncRespond(r))
    /\ \A r \in Requests : WF_vars(SyncDataReturns(r, "response"))
    /\ \A c \in Pages : WF_vars(WriteFrameInTurn(c))
    /\ \A c \in Pages : WF_vars(Receive(c, FALSE))

SpecQuiesce == InitQuiesce /\ [][QuiesceNext]_vars /\ QuiesceFairness

\* no push is in flight and every outbound queue is empty
Quiet ==
    /\ \A r \in Requests : syncReq[r].pc = "idle" /\ fetch[r].client = ""
    /\ \A c \in Sessions : send[c] = <<>>

\* C39: the pushes, broadcasts and resync reactions set off by the drop die
\* out: a state without push in flight and with every queue empty is
\* reached
C39_Quiescence == <>Quiet

\* ------------------------------------------------------------------------
\* Tombstones in the stored boards (checked under SpecSync)
\* ------------------------------------------------------------------------

\* the ids of the records of a list that carry deleted=true
Tombstones(list) == { list[i].id : i \in { j \in DOMAIN list : list[j].deleted } }

\* C40: a task id or column id that the stored board of an identity holds
\* with deleted=true is held with deleted=true by every later stored board
\* of that identity, whatever is pushed.
C40_TombstonesPermanent ==
    [][\A e \in Emails :
         store[e].present =>
           /\ store'[e].present
           /\ Tombstones(store[e].data.tasks) \subseteq Tombstones(store'[e].data.tasks)
           /\ Tombstones(store[e].data.columns)
                 \subseteq Tombstones(store'[e].data.columns)]_vars

====
